---- MODULE Spec2Model ----
(***************************************************************************)
(* Paper trader for 15-minute UP/DOWN markets                              *)
(* (src/_analysis/polymarket-15-min-strategy-papertrader/main.py):         *)
(* the order-book store, the fill simulation, the per-market strategy      *)
(* engine and the settlement resolver.                                     *)
(*                                                                         *)
(* Amounts (USD, shares, prices) are Python floats in the source.  They    *)
(* are modelled as exact rationals <<n, d>> in lowest terms with d > 0, so *)
(* that equality of amounts is structural equality.  Float rounding is not *)
(* modelled; the source's 1e-9 tolerances are kept and compared exactly.   *)
(***************************************************************************)
EXTENDS Integers, Sequences, FiniteSets, TLC

VARIABLES
    \* ---- driver / engine / account (Spec, SpecLadder) ----
    mode,       \* args.mode: "threshold35" | "spread73_22"
    store,      \* OrderBookStore._books of the two outcome tokens
    cash,       \* PaperAccount.cash
    cash0,      \* history: the cash the account held when the market was bound
    pos,        \* PaperAccount.positions of the two outcome tokens
    primary,    \* UpDownStrategyEngine.primary
    thr,        \* UpDownStrategyEngine.next_dca_threshold
    done,       \* UpDownStrategyEngine.dca_buys_done
    trace,      \* history: the _maybe_buy calls and Fills of the tick just taken
    pc,         \* where the driver thread is
    polls,      \* polls made by the settlement wait loop
    result,     \* the MarketResult of settle_market (None before)
    \* ---- order-book store under concurrent writers (SpecStore) ----
    heap,       \* OrderBook objects: id -> [bids, asks]
    books,      \* OrderBookStore._books: token -> object id (0: no entry)
    lock,       \* OrderBookStore._lock holder ("free" or a thread)
    wk,         \* per feed thread: pc and locals of update_from_snapshot
    rd,         \* the driver thread: pc and locals of get and of its reads
    latest,     \* history: token -> raw snapshot of the last completed update
    nUpd,       \* number of update_from_snapshot calls started
    \* ---- single calls on drawn inputs (SpecFn) ----
    fnIn,       \* the call: consume_asks_for_buy(asks, usd) or
                \* update_from_snapshot(token, bids, asks); <<>> when unused
    fnOut,      \* <<>>, or <<r>> once the call has returned r
    disk,       \* the file at cfg.state_path
    sv,         \* save_state's position in the call drawn as fnIn
    \* ---- main()'s loop over a sequence of markets (SpecDriver) ----
    active,     \* active_market: a market slug or None
    clock,      \* the wall clock, in units of settle_grace_sec
    lastDisc,   \* last_discovery
    listed,     \* the markets the listing API returns with closed=false
    held,       \* market -> the account holds a position on its tokens
    nRes,       \* history: market -> MarketResults settle_market produced for it
    nBind,      \* history: number of times the loop has bound a market
    \* ---- MarketFeed and its worker threads (SpecFeed) ----
    prefer_ws,  \* cfg.prefer_websocket and WS_AVAILABLE
    stopEv,     \* MarketFeed._stop is set
    token_ids,  \* MarketFeed.token_ids: the token pair of a market, by its name
    threads,    \* every thread the feed has started: kind, pc and locals
    refs,       \* MarketFeed._thread, _ws_thread, _ws (0: None), by thread number
    fd          \* the driver thread inside MarketFeed: pc and locals

engineVars == <<mode, store, cash, cash0, pos, primary, thr, done, trace,
                pc, polls, result>>
storeVars == <<heap, books, lock, wk, rd, latest, nUpd>>
fnVars == <<fnIn, fnOut, disk, sv>>
driverVars == <<active, clock, lastDisc, listed, held, nRes, nBind>>
feedVars == <<prefer_ws, stopEv, token_ids, threads, refs, fd>>
vars == <<engineVars, storeVars, fnVars, driverVars, feedVars>>

None == "None"      \* Python None where the other values are strings
NoneF == <<>>        \* Python None where the other values are floats

(***************************************************************************)
(* Exact rational arithmetic                                               *)
(***************************************************************************)
Abs(x) == IF x < 0 THEN -x ELSE x

RECURSIVE GCD(_, _)
GCD(a, b) == IF b = 0 THEN a ELSE GCD(b, a % b)

\* n/d in lowest terms with a positive denominator, g the gcd of |n| and |d|
Reduce(n, d, g) ==
    IF d < 0 THEN <<(-n) \div g, (-d) \div g>> ELSE <<n \div g, d \div g>>

R(n, d) == IF n = 0 THEN <<0, 1>> ELSE Reduce(n, d, GCD(Abs(n), Abs(d)))

Zero == <<0, 1>>
RAdd(x, y) == R(x[1] * y[2] + y[1] * x[2], x[2] * y[2])
RSub(x, y) == R(x[1] * y[2] - y[1] * x[2], x[2] * y[2])
RMul(x, y) == R(x[1] * y[1], x[2] * y[2])
RDiv(x, y) == R(x[1] * y[2], x[2] * y[1])
RLt(x, y) == x[1] * y[2] < y[1] * x[2]
RLe(x, y) == x[1] * y[2] <= y[1] * x[2]
RMin(x, y) == IF RLe(x, y) THEN x ELSE y
RMax(x, y) == IF RLe(x, y) THEN y ELSE x
Cents(c) == R(c, 100)

\* 1e-9 as 1/EpsInv.  x <= 1e-9, decided without forming n * 10^9.
EpsInv == 1000000000
LeEps(x) == x[1] <= 0 \/ x[2] \div x[1] >= EpsInv

(***************************************************************************)
(* StrategyConfig defaults (main() builds StrategyConfig() unchanged)      *)
(***************************************************************************)
buy_chunk_usd == R(1, 1)
max_side_spend_usd == R(4, 1)
require_free_cash == Cents(5)
entry_ask_cents == 35
dca_step_cents == 5
dca_levels == 3
sum_cap_dollars == Cents(99)
expensive_min == Cents(73)
cheap_max == Cents(22)
spread_sum_cap == R(1, 1)
settle_signal_bid == Cents(99)

(***************************************************************************)
(* Price levels and books.  A level is [price, size]; a stored book is     *)
(* [bids, asks], two sequences of levels.                                  *)
(***************************************************************************)
Lvl(p, s) == [price |-> p, size |-> s]
EmptyBook == [bids |-> <<>>, asks |-> <<>>]

\* OrderBook.best_bid / best_ask: the first level's price, None when empty
best_bid(ob) == IF Len(ob.bids) > 0 THEN ob.bids[1].price ELSE NoneF
best_ask(ob) == IF Len(ob.asks) > 0 THEN ob.asks[1].price ELSE NoneF

(***************************************************************************)
(* OrderBookStore.update_from_snapshot.  A raw level carries the feed's    *)
(* "price" and "size" fields: a number, or NoneF for a missing or          *)
(* non-numeric field (what safe_float turns into None).                    *)
(***************************************************************************)
safe_float(x) == IF Len(x) = 2 THEN R(x[1], x[2]) ELSE NoneF

\* the loop with break for continue: ingestion ends at the first level
\* that does not parse
RECURSIVE ParseLevels_StopAtBad(_)
ParseLevels_StopAtBad(raw) ==
    IF Len(raw) = 0 THEN <<>>
    ELSE IF safe_float(Head(raw).price) = NoneF \/ safe_float(Head(raw).size) = NoneF
    THEN <<>>
    ELSE <<Lvl(safe_float(Head(raw).price), safe_float(Head(raw).size))>>
         \o ParseLevels_StopAtBad(Tail(raw))

\* the loop of lines 198-203 / 207-212: keep the levels whose two fields parse
RECURSIVE ParseLevels(_)
ParseLevels(raw) ==
    IF Len(raw) = 0 THEN <<>>
    ELSE LET p == safe_float(Head(raw).price)
             s == safe_float(Head(raw).size)
         IN  IF p = NoneF \/ s = NoneF
             THEN ParseLevels(Tail(raw))
             ELSE <<Lvl(p, s)>> \o ParseLevels(Tail(raw))

\* list.sort is stable: x goes behind every level that does not sort after it
RECURSIVE InsertLevel(_, _, _)
InsertLevel(sorted, x, descending) ==
    IF Len(sorted) = 0 THEN <<x>>
    ELSE LET h == Head(sorted)
             before == IF descending THEN RLe(x.price, h.price)
                       ELSE RLe(h.price, x.price)
         IN  IF before THEN <<h>> \o InsertLevel(Tail(sorted), x, descending)
             ELSE <<x>> \o sorted

RECURSIVE SortFrom(_, _, _)
SortFrom(done_, todo, descending) ==
    IF Len(todo) = 0 THEN done_
    ELSE SortFrom(InsertLevel(done_, Head(todo), descending), Tail(todo), descending)

SortBids_Ascending(levels) == SortFrom(<<>>, levels, FALSE)

\* bb.sort(key=price, reverse=True)
SortBids(levels) == SortFrom(<<>>, levels, TRUE)
\* aa.sort(key=price)
SortAsks(levels) == SortFrom(<<>>, levels, FALSE)

\* the OrderBook that update_from_snapshot publishes for a raw snapshot
BookOf(snap) == [bids |-> SortBids(ParseLevels(snap.bids)),
                 asks |-> SortAsks(ParseLevels(snap.asks))]

(***************************************************************************)
(* consume_asks_for_buy: walk the ask ladder with a USD budget             *)
(***************************************************************************)
MaxSharesHere_NoBudget(size, remaining, price) == size

\* max_shares_here = min(size, remaining / price)
MaxSharesHere(size, remaining, price) == RMin(size, RDiv(remaining, price))

RECURSIVE ConsumeLoop(_, _, _, _, _)

\* lines 500-505: level i with max_shares_here already computed
TakeLevel(asks, i, remaining, shares, spent, max_shares_here) ==
    LET cost_here == RMul(max_shares_here, asks[i].price)
    IN  IF RLe(max_shares_here, Zero)
        THEN ConsumeLoop(asks, i + 1, remaining, shares, spent)
        ELSE ConsumeLoop(asks, i + 1, RSub(remaining, cost_here),
                         RAdd(shares, max_shares_here), RAdd(spent, cost_here))

\* the for loop over ob.asks, from level i on
ConsumeLoop(asks, i, remaining, shares, spent) ==
    IF i > Len(asks) \/ LeEps(remaining)
    THEN [shares |-> shares, spent |-> spent]
    ELSE IF RLe(asks[i].price, Zero)
    THEN ConsumeLoop(asks, i + 1, remaining, shares, spent)
    ELSE TakeLevel(asks, i, remaining, shares, spent,
                   MaxSharesHere(asks[i].size, remaining, asks[i].price))

\* avg = (spent / shares) if shares > 0 else 0.0; return shares, avg, spent
WalkResult(r) ==
    [shares |-> r.shares,
     avg |-> IF RLt(Zero, r.shares) THEN RDiv(r.spent, r.shares) ELSE Zero,
     spent |-> r.spent]

consume_asks_for_buy(asks, usd_to_spend) ==
    WalkResult(ConsumeLoop(asks, 1, usd_to_spend, Zero, Zero))

(***************************************************************************)
(* Account and engine.  The two outcome tokens of the bound market are     *)
(* called by their side, "UP" (mkt.up_token) and "DOWN" (mkt.down_token).  *)
(* An account value is [cash, pos, fills, calls]: cash and positions as in *)
(* PaperAccount, fills the Fill records handed to FileLogger.log_fill by   *)
(* the running step, and calls one record per _maybe_buy call of the       *)
(* running step with the account before and after it.                      *)
(***************************************************************************)
Sides == {"UP", "DOWN"}
Other(side) == IF side = "UP" THEN "DOWN" ELSE "UP"
NoPosition == [shares |-> Zero, cost_usd |-> Zero]

\* Position.avg_price
avg_price(p) == IF RLe(p.shares, Zero) THEN Zero ELSE RDiv(p.cost_usd, p.shares)

\* clamp(n, lo, hi) = max(lo, min(hi, n))
clamp(n, lo, hi) == RMax(lo, RMin(hi, n))

HasFreeCash_NoReserve(c, usd) == TRUE

\* not (acct.cash < usd + require_free_cash)
HasFreeCash(c, usd) == ~RLt(c, RAdd(usd, require_free_cash))

Debit_Twice(c, spent) == RSub(c, RAdd(spent, spent))

\* acct.cash -= spent
Debit(c, spent) == RSub(c, spent)

\* the early returns of _maybe_buy; sim is consume_asks_for_buy(ob, usd)
Rejected(a, usd, sim) ==
    \/ RLe(usd, Zero)
    \/ ~HasFreeCash(a.cash, usd)
    \/ RLe(sim.shares, Zero)
    \/ RLe(sim.spent, Zero)

\* lines 548-564: debit, credit the position, log the Fill
Filled(a, token, note, sim) ==
    [a EXCEPT !.cash = Debit(a.cash, sim.spent),
              !.pos = [a.pos EXCEPT ![token] =
                          [shares |-> RAdd(a.pos[token].shares, sim.shares),
                           cost_usd |-> RAdd(a.pos[token].cost_usd, sim.spent)]],
              !.fills = Append(a.fills,
                          [token_id |-> token, side |-> "BUY", price |-> sim.avg,
                           shares |-> sim.shares, usd |-> sim.spent, note |-> note])]

\* history: the call, with the account before (a) and after (b) it
Recorded(a, b, token, usd, note) ==
    [b EXCEPT !.calls = Append(a.calls,
        [token |-> token, usd |-> usd, note |-> note,
         cash |-> a.cash, pos |-> a.pos, nfills |-> Len(a.fills),
         cash2 |-> b.cash, pos2 |-> b.pos, nfills2 |-> Len(b.fills)])]

\* _maybe_buy once shares, avg, spent = consume_asks_for_buy(ob, usd) is sim
BuySim(a, token, usd, note, sim) ==
    Recorded(a,
             IF Rejected(a, usd, sim) THEN a ELSE Filled(a, token, note, sim),
             token, usd, note)

maybe_buy(a, token, ob, usd, note) ==
    BuySim(a, token, usd, note, consume_asks_for_buy(ob.asks, usd))

EntryThreshold == Cents(entry_ask_cents)

NextThreshold_Raise(threshold) ==
    clamp(RAdd(threshold, Cents(dca_step_cents)), Cents(1), Cents(99))

\* clamp(threshold - dca_step_cents / 100, 0.01, 0.99)
NextThreshold(threshold) ==
    clamp(RSub(threshold, Cents(dca_step_cents)), Cents(1), Cents(99))

\* An engine value is [primary, thr, done].  x is [a, e, hung].
\* line 573 with < for <=
dca_if_trigger_OneLevelLess(x, side, ob, ask) ==
    IF ~RLt(x.a.pos[side].cost_usd, max_side_spend_usd) THEN x
    ELSE IF RLe(ask, x.e.thr[side]) /\ x.e.done[side] < dca_levels
    THEN [x EXCEPT
            !.a = maybe_buy(x.a, side, ob, buy_chunk_usd, side \o "_entry_or_dca"),
            !.e = [x.e EXCEPT !.done[side] = @ + 1,
                              !.thr[side] = NextThreshold(x.e.thr[side])]]
    ELSE x

dca_if_trigger(x, side, ob, ask) ==
    LET a == x.a
        e == x.e
        threshold == e.thr[side]
    IN  IF ~RLt(a.pos[side].cost_usd, max_side_spend_usd) THEN x
        ELSE IF RLe(ask, threshold) /\ e.done[side] <= dca_levels
        THEN [x EXCEPT
                !.a = maybe_buy(a, side, ob, buy_chunk_usd, side \o "_entry_or_dca"),
                !.e = [e EXCEPT !.done[side] = @ + 1,
                                !.thr[side] = NextThreshold(threshold)]]
        ELSE x

\* hedge_pos.cost_usd >= max_side_spend_usd
SideCapReached(cost) == RLe(max_side_spend_usd, cost)

\* The while loop of _hedge_chunks.  Every iteration reads the account
\* afresh, so an iteration whose buy is rejected leaves the loop where it
\* was: the loop then never ends (hung).
RECURSIVE HedgeLoop(_, _, _, _)

\* lines 597-598 and the loop test: b is the account after _maybe_buy on a
HedgeNext(a, b, ptok, htok, hob) ==
    IF b.cash = a.cash /\ b.pos = a.pos THEN [a |-> b, hung |-> TRUE]
    ELSE HedgeLoop(b, ptok, htok, hob)

\* lines 588-596: est is consume_asks_for_buy(hedge_ob, buy_chunk_usd)
HedgeChunk(a, ptok, htok, hob, est) ==
    IF RLe(est.shares, Zero) \/ RLe(est.spent, Zero)
    THEN [a |-> a, hung |-> FALSE]
    ELSE IF RLe(sum_cap_dollars, RAdd(avg_price(a.pos[ptok]), est.avg))
    THEN [a |-> a, hung |-> FALSE]
    ELSE HedgeNext(a, maybe_buy(a, htok, hob, buy_chunk_usd, "hedge_chunk_sumcap_ok"),
                   ptok, htok, hob)

HedgeLoop(a, ptok, htok, hob) ==
    IF LeEps(RSub(a.pos[ptok].cost_usd, a.pos[htok].cost_usd))
    THEN [a |-> a, hung |-> FALSE]
    ELSE IF SideCapReached(a.pos[htok].cost_usd) THEN [a |-> a, hung |-> FALSE]
    ELSE HedgeChunk(a, ptok, htok, hob,
                    consume_asks_for_buy(hob.asks, buy_chunk_usd))

\* x with the account and the hung flag the hedge loop ended with
AfterHedge(x, r) == [x EXCEPT !.a = r.a, !.hung = r.hung]

hedge_chunks_AnyAsk(x, ptok, htok, hob, hedge_ask) ==
    AfterHedge(x, HedgeLoop(x.a, ptok, htok, hob))

\* _hedge_chunks: the test of the hedge side's ask, then the loop
hedge_chunks(x, ptok, htok, hob, hedge_ask) ==
    IF RLt(EntryThreshold, hedge_ask) THEN x
    ELSE AfterHedge(x, HedgeLoop(x.a, ptok, htok, hob))

\* the two tests of lines 607-610 in the other order
PickPrimary_DownFirst(e, up_ask, down_ask) ==
    IF e.primary # None THEN e.primary
    ELSE IF RLe(down_ask, EntryThreshold) THEN "DOWN"
    ELSE IF RLe(up_ask, EntryThreshold) THEN "UP"
    ELSE None

\* lines 606-610
PickPrimary(e, up_ask, down_ask) ==
    IF e.primary # None THEN e.primary
    ELSE IF RLe(up_ask, EntryThreshold) THEN "UP"
    ELSE IF RLe(down_ask, EntryThreshold) THEN "DOWN"
    ELSE None

\* the UP or the DOWN one of two values
OfSide(side, up, down) == IF side = "UP" THEN up ELSE down

\* lines 617-625: hedge when the primary side holds a position
HedgeIfHeld(x, p, hob, hedge_ask) ==
    IF RLt(Zero, x.a.pos[p].cost_usd)
    THEN hedge_chunks(x, p, Other(p), hob, hedge_ask)
    ELSE x

\* lines 612-625, with self.primary already chosen in x
StepPrimary(x, up_ob, down_ob, up_ask, down_ask) ==
    IF x.e.primary = None THEN x
    ELSE HedgeIfHeld(dca_if_trigger(x, x.e.primary,
                                    OfSide(x.e.primary, up_ob, down_ob),
                                    OfSide(x.e.primary, up_ask, down_ask)),
                     x.e.primary,
                     OfSide(x.e.primary, down_ob, up_ob),
                     OfSide(x.e.primary, down_ask, up_ask))

step_threshold35(x, up_ob, down_ob, up_ask, down_ask) ==
    StepPrimary([x EXCEPT !.e.primary = PickPrimary(x.e, up_ask, down_ask)],
                up_ob, down_ob, up_ask, down_ask)

SpreadOk(exp_ask, cheap_ask) ==
    /\ RLe(expensive_min, exp_ask)
    /\ RLe(cheap_ask, cheap_max)
    /\ RLt(RAdd(exp_ask, cheap_ask), spread_sum_cap)

\* lines 629-631: UP expensive, DOWN cheap
SpreadUpExp(a, up_ob, down_ob, up_ask, down_ask) ==
    IF SpreadOk(up_ask, down_ask)
    THEN maybe_buy(maybe_buy(a, "UP", up_ob, buy_chunk_usd, "spread73_22_up_exp"),
                   "DOWN", down_ob, buy_chunk_usd, "spread73_22_down_cheap")
    ELSE a

\* lines 633-635: DOWN expensive, UP cheap
SpreadDownExp(a, up_ob, down_ob, up_ask, down_ask) ==
    IF SpreadOk(down_ask, up_ask)
    THEN maybe_buy(maybe_buy(a, "DOWN", down_ob, buy_chunk_usd, "spread73_22_down_exp"),
                   "UP", up_ob, buy_chunk_usd, "spread73_22_up_cheap")
    ELSE a

step_spread73_22(x, up_ob, down_ob, up_ask, down_ask) ==
    [x EXCEPT !.a = SpreadDownExp(SpreadUpExp(x.a, up_ob, down_ob, up_ask, down_ask),
                                  up_ob, down_ob, up_ask, down_ask)]

\* line 529 without its tests of the two bids
step_IgnoreBids(x, m, st) ==
    IF best_ask(st["UP"]) = NoneF \/ best_ask(st["DOWN"]) = NoneF THEN x
    ELSE IF m = "threshold35"
    THEN step_threshold35(x, st["UP"], st["DOWN"],
                          best_ask(st["UP"]), best_ask(st["DOWN"]))
    ELSE IF m = "spread73_22"
    THEN step_spread73_22(x, st["UP"], st["DOWN"],
                          best_ask(st["UP"]), best_ask(st["DOWN"]))
    ELSE x

\* UpDownStrategyEngine.step
step(x, m, st) ==
    LET up_ob == st["UP"]
        down_ob == st["DOWN"]
        up_ask == best_ask(up_ob)
        down_ask == best_ask(down_ob)
        up_bid == best_bid(up_ob)
        down_bid == best_bid(down_ob)
    IN  IF up_ask = NoneF \/ down_ask = NoneF \/ up_bid = NoneF \/ down_bid = NoneF
        THEN x
        ELSE IF m = "threshold35"
        THEN step_threshold35(x, up_ob, down_ob, up_ask, down_ask)
        ELSE step_spread73_22(x, up_ob, down_ob, up_ask, down_ask)

(***************************************************************************)
(* Settlement                                                              *)
(***************************************************************************)
pick_winner_from_book(st) ==
    LET up_bid == best_bid(st["UP"])
        down_bid == best_bid(st["DOWN"])
    IN  IF up_bid = NoneF \/ down_bid = NoneF THEN None
        ELSE IF RLe(settle_signal_bid, up_bid) THEN "UP"
        ELSE IF RLe(settle_signal_bid, down_bid) THEN "DOWN"
        ELSE None

\* best_bid() or 0.0
OrZero(x) == IF x = NoneF \/ x = Zero THEN Zero ELSE x

force_pick_winner_TieDown(st) ==
    IF RLt(OrZero(best_bid(st["DOWN"])), OrZero(best_bid(st["UP"])))
    THEN "UP" ELSE "DOWN"

force_pick_winner(st) ==
    LET up_bid == OrZero(best_bid(st["UP"]))
        down_bid == OrZero(best_bid(st["DOWN"]))
    IN  IF RLt(down_bid, up_bid) THEN "UP"
        ELSE IF RLt(up_bid, down_bid) THEN "DOWN"
        ELSE "UP"

Redeem_BothSides(p, winner) == RAdd(p["UP"].shares, p["DOWN"].shares)

\* redeem = (up_shares if winner == "UP" else down_shares) * 1.0
Redeem(p, winner) == IF winner = "UP" THEN p["UP"].shares ELSE p["DOWN"].shares

(***************************************************************************)
(* Bounds and the feed's snapshots                                         *)
(***************************************************************************)
MaxPolls == 1    \* polls of the settlement wait before settle_max_wait_sec is over
MaxSettles == 2     \* MarketResults of one market in one run

Raw(c, n, d) == [price |-> <<c, 100>>, size |-> <<n, d>>]

\* deep book at 0.20
SnapDeep == [bids |-> <<Raw(15, 10, 1)>>, asks |-> <<Raw(20, 100, 1)>>]
\* thin book: a chunk of 1.0 USD takes all of it, 3.75 shares for 0.75 USD
\* (bids in the order the feed may send them, unsorted)
SnapThin == [bids |-> <<Raw(10, 5, 1), Raw(15, 5, 1)>>,
             asks |-> <<Raw(20, 15, 4)>>]
\* expensive side
SnapHigh == [bids |-> <<Raw(70, 10, 1)>>, asks |-> <<Raw(75, 100, 1)>>]
\* a resolved market's winning token: bid at the signal, no asks
SnapWon == [bids |-> <<Raw(99, 50, 1)>>, asks |-> <<>>]
\* expensive side whose only level has been taken out (size 0): an ask is
\* quoted, nothing fills
SnapHighZero == [bids |-> <<Raw(70, 10, 1)>>, asks |-> <<Raw(75, 0, 1)>>]
\* thin top of book in front of a far level: one chunk walks both
SnapLadderA == [bids |-> <<Raw(15, 10, 1)>>,
                asks |-> <<Raw(80, 10, 1), Raw(20, 1, 4)>>]
SnapLadderB == [bids |-> <<Raw(15, 10, 1)>>,
                asks |-> <<Raw(90, 10, 1), Raw(20, 1, 2)>>]

\* cheap side, below the last threshold of the DCA ladder
SnapLow == [bids |-> <<Raw(5, 10, 1)>>, asks |-> <<Raw(10, 100, 1)>>]

Snapshots == {SnapDeep, SnapThin, SnapHigh, SnapHighZero, SnapWon}
\* asks quoted, no bid
SnapNoBid == [bids |-> <<>>, asks |-> <<Raw(20, 100, 1)>>]
DcaSnapshots == {SnapDeep, SnapHigh, SnapLow, SnapNoBid}
LadderSnapshots == {SnapDeep, SnapLadderA, SnapLadderB}

\* cash an account starts a market with: the start balance of main(), or
\* what load_state read back from an earlier run.  Spread capture buys on
\* every tick while cash lasts, so its runs start on a nearly spent account.
ThresholdCash == {R(100, 1), R(3, 1)}
SpreadCash == {R(3, 1)}

(***************************************************************************)
(* The driver thread on one bound market, and the feed                     *)
(***************************************************************************)
NoTrace == [calls |-> <<>>, fills |-> <<>>]

StoreIdle ==
    /\ heap = <<>> /\ books = <<>> /\ lock = "free" /\ wk = <<>> /\ rd = <<>>
    /\ latest = <<>> /\ nUpd = 0
\* no file at cfg.state_path
NoFile == [exists |-> FALSE, json |-> <<>>]
FnIdle == fnIn = <<>> /\ fnOut = <<>> /\ disk = NoFile /\ sv = "idle"
DriverIdle ==
    /\ active = "None" /\ clock = 0 /\ lastDisc = 0 /\ listed = {}
    /\ held = <<>> /\ nRes = <<>> /\ nBind = 0

\* state after the driver bound a market: engine.reset_for_new_market(),
\* a fresh OrderBookStore, no position on the market's tokens
FeedIdle ==
    /\ prefer_ws = FALSE /\ stopEv = FALSE /\ token_ids = None
    /\ threads = <<>>
    /\ refs = [thread |-> 0, ws_thread |-> 0, ws |-> 0]
    /\ fd = [pc |-> "none", arg |-> None, nBefore |-> 0, n |-> 0]

InitEngine(cashes, modes) ==
    /\ mode \in modes
    /\ store = [t \in Sides |-> EmptyBook]
    /\ cash \in cashes
    /\ cash0 = cash
    /\ pos = [t \in Sides |-> NoPosition]
    /\ primary = None
    /\ thr = [t \in Sides |-> EntryThreshold]
    /\ done = [t \in Sides |-> 0]
    /\ trace = NoTrace
    /\ pc = "trade"
    /\ polls = 0
    /\ result = <<>>

\* the engine's scratch state: primary, next_dca_threshold, dca_buys_done
Scratch == [primary |-> primary, thr |-> thr, done |-> done]

reset_for_new_market_KeepCounts ==
    [primary |-> None, thr |-> [t \in Sides |-> EntryThreshold], done |-> done]

\* UpDownStrategyEngine.reset_for_new_market
reset_for_new_market ==
    [primary |-> None, thr |-> [t \in Sides |-> EntryThreshold],
     done |-> [t \in Sides |-> 0]]

Init ==
    /\ \/ InitEngine(ThresholdCash, {"threshold35"})
       \/ InitEngine(SpreadCash, {"spread73_22"})
    /\ StoreIdle /\ FnIdle /\ DriverIdle /\ FeedIdle

\* a feed worker completes update_from_snapshot(token, bids, asks).  The
\* feed follows the bound market's tokens until the market is settled.
\* trace describes the tick just taken against the books it read, so it
\* is dropped as soon as a book changes.
FeedUpdate(S) ==
    /\ pc # "idle"
    /\ \E t \in Sides, snap \in S : store' = [store EXCEPT ![t] = BookOf(snap)]
    /\ trace' = NoTrace
    /\ UNCHANGED <<mode, cash, cash0, pos, primary, thr, done,
                   pc, polls, result>>
    /\ UNCHANGED <<storeVars, fnVars, driverVars, feedVars>>

\* the account and engine as engine.step left them (x), and where the
\* driver goes next: stuck inside step, into settle_market, or round again
AfterStep(x, late) ==
    /\ cash' = x.a.cash
    /\ pos' = x.a.pos
    /\ primary' = x.e.primary
    /\ thr' = x.e.thr
    /\ done' = x.e.done
    /\ trace' = [calls |-> x.a.calls, fills |-> x.a.fills]
    /\ pc' = IF x.hung THEN "hung" ELSE IF late THEN "settle" ELSE "trade"

\* one iteration of main()'s loop on the bound market: engine.step, then
\* settle_market is entered if now, read at the top of the iteration, is
\* past end_time + settle_grace_sec (late)
Tick ==
    /\ pc = "trade"
    /\ \E late \in BOOLEAN :
        AfterStep(step([a |-> [cash |-> cash, pos |-> pos,
                               fills |-> <<>>, calls |-> <<>>],
                        e |-> [primary |-> primary, thr |-> thr, done |-> done],
                        hung |-> FALSE],
                       mode, store),
                  late)
    /\ polls' = 0
    /\ UNCHANGED <<mode, store, cash0, result>>
    /\ UNCHANGED <<storeVars, fnVars, driverVars, feedVars>>

\* lines 716-738 of settle_market; forced is history: the winner came from
\* force_pick_winner
Finish_KeepPositions(winner, forced) ==
    LET redeem == Redeem(pos, winner)
    IN  /\ cash' = RAdd(cash, redeem)
        /\ pos' = pos
        /\ result' = <<[winner |-> winner,
                        up_shares |-> pos["UP"].shares,
                        down_shares |-> pos["DOWN"].shares,
                        up_cost |-> pos["UP"].cost_usd,
                        down_cost |-> pos["DOWN"].cost_usd,
                        pnl |-> RSub(redeem, RAdd(pos["UP"].cost_usd,
                                                  pos["DOWN"].cost_usd)),
                        balance_after |-> RAdd(cash, redeem),
                        forced |-> forced]>>
        /\ pc' = "idle"

Finish_BalanceBefore(winner, forced) ==
    LET redeem == Redeem(pos, winner)
    IN  /\ cash' = RAdd(cash, redeem)
        /\ pos' = [t \in Sides |-> NoPosition]
        /\ result' = <<[winner |-> winner,
                        up_shares |-> pos["UP"].shares,
                        down_shares |-> pos["DOWN"].shares,
                        up_cost |-> pos["UP"].cost_usd,
                        down_cost |-> pos["DOWN"].cost_usd,
                        pnl |-> RSub(redeem, RAdd(pos["UP"].cost_usd,
                                                  pos["DOWN"].cost_usd)),
                        balance_after |-> cash,
                        forced |-> forced]>>
        /\ pc' = "idle"

\* settle_market from the redemption on (lines 716-739)
Finish(winner, forced) ==
    LET redeem == Redeem(pos, winner)
    IN  /\ cash' = RAdd(cash, redeem)
        /\ pos' = [t \in Sides |-> NoPosition]
        /\ result' = <<[winner |-> winner,
                        up_shares |-> pos["UP"].shares,
                        down_shares |-> pos["DOWN"].shares,
                        up_cost |-> pos["UP"].cost_usd,
                        down_cost |-> pos["DOWN"].cost_usd,
                        pnl |-> RSub(redeem, RAdd(pos["UP"].cost_usd,
                                                  pos["DOWN"].cost_usd)),
                        balance_after |-> RAdd(cash, redeem),
                        forced |-> forced]>>
        /\ pc' = "idle"

NextPoll_Stuck(n) == n

\* time.sleep(0.5): one more poll of the wait has gone by
NextPoll(n) == n + 1

\* one pass of the wait loop of settle_market (lines 708-712)
SettlePoll ==
    /\ pc = "settle" /\ polls < MaxPolls
    /\ LET winner == pick_winner_from_book(store)
       IN  IF winner # None
           THEN Finish(winner, FALSE) /\ polls' = polls
           ELSE /\ polls' = NextPoll(polls)
                /\ UNCHANGED <<cash, pos, result, pc>>
    /\ UNCHANGED <<mode, store, cash0, primary, thr, done, trace>>
    /\ UNCHANGED <<storeVars, fnVars, driverVars, feedVars>>

\* the wait is over without a winner: lines 713-714
SettleForce ==
    /\ pc = "settle" /\ polls = MaxPolls
    /\ Finish(force_pick_winner(store), TRUE)
    /\ UNCHANGED <<mode, store, cash0, primary, thr, done, trace, polls>>
    /\ UNCHANGED <<storeVars, fnVars, driverVars, feedVars>>

\* settle_market has run for the bound market and the loop comes to it
\* again: log_result raised after the credit and the driver retries (lines
\* 876-880, the market stays bound), or discovery returns the settled market
\* and it is bound anew (lines 846-848, with the engine reset)
Rebound ==
    /\ pc = "idle" /\ nBind < MaxSettles - 1
    /\ nBind' = nBind + 1
    /\ \E e \in {Scratch, reset_for_new_market} :
          primary' = e.primary /\ thr' = e.thr /\ done' = e.done
    /\ pc' = "trade"
    /\ trace' = NoTrace
    /\ UNCHANGED <<mode, store, cash, cash0, pos, polls, result>>
    /\ UNCHANGED <<active, clock, lastDisc, listed, held, nRes>>
    /\ UNCHANGED <<storeVars, fnVars, feedVars>>

Feed == FeedUpdate(Snapshots)
Next == Feed \/ Tick \/ SettlePoll \/ SettleForce
Spec == Init /\ [][Next]_vars

\* The driver on 3 USD in threshold mode with a feed of two books, one of
\* them carrying the settlement signal.  The driver thread keeps running: a
\* sleep of the settlement wait returns and the loop test is taken again.
\* Nothing is assumed of the feed.
SettleSnapshots == {SnapDeep, SnapWon}
InitSettle == InitEngine({R(3, 1)}, {"threshold35"}) /\ StoreIdle /\ FnIdle /\ DriverIdle /\ FeedIdle
FeedSettle == FeedUpdate(SettleSnapshots)
NextSettle == FeedSettle \/ Tick \/ SettlePoll \/ SettleForce \/ Rebound
SpecSettle ==
    InitSettle /\ [][NextSettle]_vars /\ WF_vars(SettlePoll) /\ WF_vars(SettleForce)

\* The same driver and engine on 100 USD in threshold mode, fed with books
\* whose thin top level stands in front of a far level.
InitLadder == InitEngine({R(100, 1)}, {"threshold35"}) /\ StoreIdle /\ FnIdle /\ DriverIdle /\ FeedIdle
FeedLadder == FeedUpdate(LadderSnapshots)
NextLadder == FeedLadder \/ Tick \/ SettlePoll \/ SettleForce
SpecLadder == InitLadder /\ [][NextLadder]_vars

\* The same driver and engine on 3 USD, fed with books that walk the primary
\* side down its DCA ladder and below it, and with a book that has no bid.
InitDca == InitEngine({R(3, 1)}, {"threshold35", "spread73_22"}) /\ StoreIdle /\ FnIdle /\ DriverIdle /\ FeedIdle
FeedDca == FeedUpdate(DcaSnapshots)

\* the _maybe_buy call of _dca_if_trigger on side p, on the account as it is
DcaBuy(p) ==
    maybe_buy([cash |-> cash, pos |-> pos, fills |-> <<>>, calls |-> <<>>],
              p, store[p], buy_chunk_usd, p \o "_entry_or_dca")

\* an iteration of main()'s loop in threshold mode in which flog.log_fill
\* raises (the trades file cannot be opened or written) inside the
\* _maybe_buy of _dca_if_trigger: cash and position are already assigned
\* (lines 548-552), the exception leaves _maybe_buy, _dca_if_trigger and
\* step before lines 575-576 and before the hedge, and main() passes over
\* it (lines 868-871)
TickLogFails ==
    /\ pc = "trade" /\ mode = "threshold35"
    /\ \A t \in Sides : best_bid(store[t]) # NoneF /\ best_ask(store[t]) # NoneF
    /\ LET p == PickPrimary([primary |-> primary, thr |-> thr, done |-> done],
                            best_ask(store["UP"]), best_ask(store["DOWN"]))
       IN  /\ p # None
           /\ RLt(pos[p].cost_usd, max_side_spend_usd)
           /\ RLe(best_ask(store[p]), thr[p]) /\ done[p] <= dca_levels
           /\ Len(DcaBuy(p).fills) = 1
           /\ cash' = DcaBuy(p).cash
           /\ pos' = DcaBuy(p).pos
           /\ trace' = [calls |-> DcaBuy(p).calls, fills |-> <<>>]
           /\ primary' = p
    /\ \E late \in BOOLEAN : pc' = IF late THEN "settle" ELSE "trade"
    /\ polls' = 0
    /\ UNCHANGED <<mode, store, cash0, thr, done, result>>
    /\ UNCHANGED <<storeVars, fnVars, driverVars, feedVars>>

NextDca == FeedDca \/ Tick \/ TickLogFails \/ SettlePoll \/ SettleForce
SpecDca == InitDca /\ [][NextDca]_vars

(***************************************************************************)
(* Single calls on drawn inputs: consume_asks_for_buy on a stored ask      *)
(* ladder (ascending, as the store keeps it) with a budget, and            *)
(* update_from_snapshot on a raw snapshot as a feed may send it.           *)
(***************************************************************************)
MaxLevels == 2      \* levels of a drawn ask ladder
MaxRawLevels == 2   \* levels on each side of a drawn raw snapshot

RECURSIVE SeqsUpTo(_, _)
SeqsUpTo(S, n) ==
    IF n = 0 THEN {<<>>}
    ELSE LET shorter == SeqsUpTo(S, n - 1)
         IN  shorter \cup {Append(q, x) : q \in {r \in shorter : Len(r) = n - 1}, x \in S}

Ascending(levels) ==
    \A i \in 1..(Len(levels) - 1) : RLe(levels[i].price, levels[i + 1].price)
Descending(levels) ==
    \A i \in 1..(Len(levels) - 1) : RLe(levels[i + 1].price, levels[i].price)

LadderLevels == {Lvl(Cents(c), R(n, 1)) : c \in {10, 12, 50}, n \in {0, 5, 10}}
Budgets == {R(1, 2), R(1, 1), R(11, 10)}
ConsumeInputs ==
    {[op |-> "consume", asks |-> q, usd |-> b] :
        q \in {r \in SeqsUpTo(LadderLevels, MaxLevels) : Ascending(r)}, b \in Budgets}

Bad == <<>>   \* a missing or non-numeric field
RawLevels == {[price |-> <<40, 100>>, size |-> <<1, 1>>],
              [price |-> <<50, 100>>, size |-> <<2, 1>>],
              [price |-> <<50, 100>>, size |-> <<3, 1>>],
              [price |-> Bad, size |-> <<1, 1>>],
              [price |-> <<50, 100>>, size |-> Bad]}
UpdateInputs ==
    {[op |-> "update", token |-> t, bids |-> b, asks |-> a] :
        t \in Sides,
        b \in SeqsUpTo(RawLevels, MaxRawLevels),
        a \in SeqsUpTo(RawLevels, MaxRawLevels)}

(***************************************************************************)
(* save_state / load_state.  The state file is the JSON document that      *)
(* json.dump writes: objects are functions on their keys, a float is the   *)
(* number token JsonNumber(x) that json.load reads back as x, null is      *)
(* None.  An account in memory is [symbol, cash, positions], positions a   *)
(* function token id -> Position.                                          *)
(***************************************************************************)
JsonNumber(x) == [num |-> x]
JsonFloat(j) == j.num

\* dict.get(key, default)
Get(d, key, default) == IF key \in DOMAIN d THEN d[key] ELSE default

\* asdict(Position)
PositionToDict(v) == [shares |-> JsonNumber(v.shares), cost_usd |-> JsonNumber(v.cost_usd)]

\* PaperAccount.to_dict
to_dict(acct) ==
    [symbol |-> acct.symbol,
     cash |-> JsonNumber(acct.cash),
     positions |-> [k \in DOMAIN acct.positions |-> PositionToDict(acct.positions[k])]]

\* Position(float(v.get("shares", 0.0)), float(v.get("cost_usd", 0.0)))
PositionFromDict(v) ==
    [shares |-> JsonFloat(Get(v, "shares", JsonNumber(Zero))),
     cost_usd |-> JsonFloat(Get(v, "cost_usd", JsonNumber(Zero)))]

\* {}
EmptyDict == [k \in {} |-> None]

\* d.get(key, {}) or {}
DictOf(d, key) ==
    IF DOMAIN Get(d, key, EmptyDict) = {} THEN EmptyDict ELSE d[key]

PositionsOf(d) == DictOf(d, "positions")

from_dict_CashOrDefault(d, default_symbol, default_balance) ==
    [symbol |-> IF Get(d, "symbol", None) \in {None, ""} THEN default_symbol
                ELSE d["symbol"],
     cash |-> IF JsonFloat(Get(d, "cash", JsonNumber(Zero))) = Zero
              THEN default_balance
              ELSE JsonFloat(d["cash"]),
     positions |-> [k \in DOMAIN PositionsOf(d) |-> PositionFromDict(PositionsOf(d)[k])]]

\* PaperAccount.from_dict
from_dict(d, default_symbol, default_balance) ==
    [symbol |-> IF Get(d, "symbol", None) \in {None, ""} THEN default_symbol
                ELSE d["symbol"],
     cash |-> JsonFloat(Get(d, "cash", JsonNumber(default_balance))),
     positions |-> [k \in DOMAIN PositionsOf(d) |-> PositionFromDict(PositionsOf(d)[k])]]

\* the document save_state writes
save_state(accounts, meta) ==
    [accounts |-> [sym \in DOMAIN accounts |-> to_dict(accounts[sym])],
     meta |-> meta,
     saved_at |-> "ts"]

\* PaperAccount(cfg, sym, start_balances.get(sym, 100.0))
NewAccount(sym, balance) ==
    [symbol |-> sym, cash |-> balance, positions |-> EmptyDict]

\* a file holding the JSON document d; a file json.load cannot parse
File(d) == [exists |-> TRUE, json |-> <<d>>]
Unparseable == [exists |-> TRUE, json |-> <<>>]

\* float(d.get("cash", default_balance)) raises on a value that is no number
FromDictRaises(d) == "cash" \in DOMAIN d /\ "num" \notin DOMAIN d["cash"]

\* the loop over cfg.symbols inside load_state's try block: an exception
\* leaves the loop, and "except Exception" returns the accounts assigned so far
RECURSIVE LoadAccounts(_, _, _, _, _)
LoadAccounts(accounts, acc_blob, symbols, i, start_balance) ==
    IF i > Len(symbols) THEN accounts
    ELSE IF symbols[i] \notin DOMAIN acc_blob
    THEN LoadAccounts(accounts, acc_blob, symbols, i + 1, start_balance)
    ELSE IF FromDictRaises(acc_blob[symbols[i]]) THEN accounts
    ELSE LoadAccounts(
             [accounts EXCEPT ![symbols[i]] =
                 from_dict(acc_blob[symbols[i]], symbols[i], start_balance)],
             acc_blob, symbols, i + 1, start_balance)

\* {sym: PaperAccount(cfg, sym, start_balances.get(sym, 100.0)) for sym in cfg.symbols}
FreshAccounts(symbols, start_balance) ==
    [sym \in {symbols[i] : i \in 1..Len(symbols)} |-> NewAccount(sym, start_balance)]

\* load_state; symbols is the tuple cfg.symbols
load_state(file, symbols, start_balance) ==
    IF ~file.exists \/ file.json = <<>>
    THEN [accounts |-> FreshAccounts(symbols, start_balance), meta |-> EmptyDict]
    ELSE [accounts |->
              IF "accounts" \in DOMAIN file.json[1]
              THEN LoadAccounts(FreshAccounts(symbols, start_balance),
                                file.json[1]["accounts"], symbols, 1, start_balance)
              ELSE FreshAccounts(symbols, start_balance),
          meta |-> DictOf(file.json[1], "meta")]

PersistSymbols == {"BTC", "ETH"}
\* cfg.symbols, in its order
SymbolOrder == <<"BTC", "ETH">>
TokenIds == {"t1", "t2"}
PositionValues == {NoPosition, [shares |-> R(15, 4), cost_usd |-> R(3, 4)]}
PositionMaps == UNION {[T -> PositionValues] : T \in SUBSET TokenIds}
CashValues == {Zero, R(100, 1), R(5, 4)}
AccountsOf(sym) ==
    {[symbol |-> sym, cash |-> c, positions |-> ps] : c \in CashValues, ps \in PositionMaps}
MetaValues ==
    {EmptyDict,
     [k \in {"active_market", "last_settled"} |->
         IF k = "last_settled" THEN "btc-updown-15m-1" ELSE None]}
PersistInputs ==
    {[op |-> "persist", accounts |-> [sym \in PersistSymbols |-> IF sym = "BTC" THEN a ELSE b],
      meta |-> m] :
        a \in AccountsOf("BTC"), b \in AccountsOf("ETH"), m \in MetaValues}

\* entries of the "accounts" object of a state file: one save_state wrote,
\* and one whose cash is not a number
StoredEntry(sym) ==
    to_dict([symbol |-> sym, cash |-> R(5, 4),
             positions |-> [k \in {"t1"} |-> [shares |-> R(15, 4), cost_usd |-> R(3, 4)]]])
BadEntry(sym) == [symbol |-> sym, cash |-> [str |-> "abc"], positions |-> EmptyDict]
AccountBlobs ==
    UNION {[S -> {"stored", "bad"}] : S \in SUBSET PersistSymbols}
DocOf(kinds) ==
    [accounts |-> [sym \in DOMAIN kinds |->
                      IF kinds[sym] = "stored" THEN StoredEntry(sym) ELSE BadEntry(sym)],
     meta |-> EmptyDict,
     saved_at |-> "ts"]
StateFiles == {NoFile, Unparseable} \cup {File(DocOf(kinds)) : kinds \in AccountBlobs}
LoadInputs == {[op |-> "load", file |-> f] : f \in StateFiles}

\* a save over the snapshot an earlier save left
SavedAccounts ==
    {[sym \in PersistSymbols |-> [symbol |-> sym, cash |-> c, positions |-> EmptyDict]] :
        c \in {R(5, 4), R(7, 2)}}
SaveInputs ==
    {[op |-> "save", file |-> File(save_state(prev, EmptyDict)), accounts |-> a,
      meta |-> EmptyDict] :
        prev \in SavedAccounts, a \in SavedAccounts}

\* engine.step and settle_market on the accounts dict of main(): the account
\* they are handed is accounts[mkt.symbol], and they read and write its
\* positions under mkt.up_token and mkt.down_token.
TokenOf(mkt, t) == IF t = "UP" THEN mkt.up_token ELSE mkt.down_token

\* acct.positions.get(token, Position()) for both tokens of the market
ViewOf(acct, mkt) ==
    [cash |-> acct.cash,
     pos |-> [t \in Sides |-> Get(acct.positions, TokenOf(mkt, t), NoPosition)],
     fills |-> <<>>, calls |-> <<>>]

WriteBack_OnlyMarket(acct, mkt, a, touched) ==
    [acct EXCEPT !.cash = a.cash,
                 !.positions = [k \in {TokenOf(mkt, t) : t \in touched} |->
                                   IF k = mkt.up_token THEN a.pos["UP"]
                                   ELSE a.pos["DOWN"]]]

\* acct.cash and acct.positions[token] assigned for the sides in touched
WriteBack(acct, mkt, a, touched) ==
    [acct EXCEPT !.cash = a.cash,
                 !.positions =
                     [k \in DOMAIN acct.positions \cup {TokenOf(mkt, t) : t \in touched} |->
                         IF k = mkt.up_token /\ "UP" \in touched THEN a.pos["UP"]
                         ELSE IF k = mkt.down_token /\ "DOWN" \in touched THEN a.pos["DOWN"]
                         ELSE acct.positions[k]]]

\* the sides _maybe_buy assigned a position for
Bought(before, after) == {t \in Sides : after.pos[t] # before.pos[t]}

\* engine.step(active_market, store, accounts[active_market.symbol], flog)
StepAccounts(accounts, mkt, m, st) ==
    [accounts EXCEPT ![mkt.symbol] =
        WriteBack(@, mkt,
                  step([a |-> ViewOf(@, mkt), e |-> reset_for_new_market,
                        hung |-> FALSE], m, st).a,
                  Bought(ViewOf(@, mkt),
                         step([a |-> ViewOf(@, mkt), e |-> reset_for_new_market,
                               hung |-> FALSE], m, st).a))]

\* settle_market(active_market, store, accounts[active_market.symbol], ...)
\* with the winner it picked: lines 716-720
SettleAccounts(accounts, mkt, winner) ==
    [accounts EXCEPT ![mkt.symbol] =
        WriteBack(@, mkt,
                  [cash |-> RAdd(@.cash, Redeem(ViewOf(@, mkt).pos, winner)),
                   pos |-> [t \in Sides |-> NoPosition]],
                  Sides)]

HeldPosition == [shares |-> R(15, 4), cost_usd |-> R(3, 4)]
FrameMarket == [symbol |-> "BTC", up_token |-> "t1", down_token |-> "t2"]
FrameAccounts ==
    {[sym \in PersistSymbols |->
         [symbol |-> sym, cash |-> c,
          positions |-> IF sym = "BTC" THEN [k \in own |-> HeldPosition]
                        ELSE [k \in {"t1", "e1"} |-> HeldPosition]]] :
        c \in {R(100, 1), R(3, 1)}, own \in {{}, {"old"}, {"t1", "old"}}}
FrameInputs ==
    {[op |-> "frame", accounts |-> acc, mkt |-> FrameMarket, mode |-> m, st |-> st,
      winner |-> w] :
        acc \in FrameAccounts, m \in {"threshold35", "spread73_22"},
        st \in [Sides -> {BookOf(SnapDeep), BookOf(SnapHigh)}], w \in Sides}

\* One cycle of MarketFeed._rest_poll_loop and one on_message call, as
\* functions of the books stored before and of what the network delivered.
MaxItems == 2       \* items of a drawn /books response

\* self.store.update_from_snapshot(tid, bids, asks) on the books st
Updated(st, item) == [st EXCEPT ![item.tid] = BookOf(item)]

\* the loop over arr (lines 323-328) from item i on: an item that is no
\* dict raises at item.get and leaves the loop, an item without a token id
\* is passed over
RECURSIVE PollItems_SkipBad(_, _, _)
PollItems_SkipBad(st, arr, i) ==
    IF i > Len(arr) THEN [store |-> st, raised |-> FALSE]
    ELSE IF ~arr[i].dict \/ arr[i].tid = "" THEN PollItems_SkipBad(st, arr, i + 1)
    ELSE PollItems_SkipBad(Updated(st, arr[i]), arr, i + 1)

RECURSIVE PollItems(_, _, _)
PollItems(st, arr, i) ==
    IF i > Len(arr) THEN [store |-> st, raised |-> FALSE]
    ELSE IF ~arr[i].dict THEN [store |-> st, raised |-> TRUE]
    ELSE IF arr[i].tid = "" THEN PollItems(st, arr, i + 1)
    ELSE PollItems(Updated(st, arr[i]), arr, i + 1)

\* the try block of one cycle (lines 313-328)
PollTry(st, resp) ==
    IF resp.kind = "error" THEN [store |-> st, raised |-> TRUE]
    ELSE IF resp.status # 200 \/ ~resp.list THEN [store |-> st, raised |-> FALSE]
    ELSE PollItems(st, resp.arr, 1)

\* one cycle: the try block, "except Exception: pass", then the sleep
rest_poll_cycle(st, resp) ==
    [store |-> PollTry(st, resp).store, next |-> "sleep"]

\* on_message (lines 265-275)
on_message(st, msg) ==
    IF ~msg.decodable THEN st
    ELSE IF msg.event_type = "book" /\ msg.tid # "" THEN Updated(st, msg)
    ELSE st

ItemBook(t, snap) == [dict |-> TRUE, tid |-> t, bids |-> snap.bids, asks |-> snap.asks]
NotADict == [dict |-> FALSE]
ItemSet == {ItemBook(t, snap) : t \in Sides \cup {""}, snap \in {SnapDeep, SnapHigh}}
               \cup {NotADict}
Responses ==
    {[kind |-> "error"],
     [kind |-> "reply", status |-> 500, list |-> FALSE, arr |-> <<>>],
     [kind |-> "reply", status |-> 200, list |-> FALSE, arr |-> <<>>]}
        \cup {[kind |-> "reply", status |-> 200, list |-> TRUE, arr |-> arr] :
                  arr \in SeqsUpTo(ItemSet, MaxItems)}
Messages ==
    {[decodable |-> FALSE]}
        \cup {[decodable |-> TRUE, event_type |-> e, tid |-> t,
               bids |-> SnapDeep.bids, asks |-> SnapDeep.asks] :
                  e \in {"book", "price_change"}, t \in Sides \cup {""}}
StoredBefore ==
    {[t \in Sides |-> EmptyBook], [t \in Sides |-> BookOf(SnapThin)]}
FeedInputs ==
    {[op |-> "poll", prev |-> st, resp |-> r] : st \in StoredBefore, r \in Responses}
        \cup {[op |-> "message", prev |-> st, msg |-> m] :
                  st \in StoredBefore, m \in Messages}

InitFn ==
    /\ InitEngine({R(100, 1)}, {"threshold35"})
    /\ StoreIdle /\ DriverIdle /\ FeedIdle
    /\ fnIn \in ConsumeInputs \cup UpdateInputs \cup PersistInputs \cup LoadInputs
                \cup SaveInputs \cup FeedInputs \cup FrameInputs
    /\ fnOut = <<>>
    /\ disk = IF fnIn.op \in {"load", "save"} THEN fnIn.file ELSE NoFile
    /\ sv = "idle"

CallConsume ==
    /\ fnIn.op = "consume" /\ fnOut = <<>>
    /\ fnOut' = <<consume_asks_for_buy(fnIn.asks, fnIn.usd)>>
    /\ UNCHANGED <<engineVars, storeVars, fnIn, disk, sv, driverVars, feedVars>>

CallUpdate ==
    /\ fnIn.op = "update" /\ fnOut = <<>>
    /\ store' = [store EXCEPT ![fnIn.token] = BookOf(fnIn)]
    /\ fnOut' = <<None>>
    /\ UNCHANGED <<mode, cash, cash0, pos, primary, thr, done, trace, pc, polls, result>>
    /\ UNCHANGED <<storeVars, fnIn, disk, sv, driverVars, feedVars>>

\* save_state(cfg, accounts, meta), then load_state(cfg, start_balances)
CallSaveLoad ==
    /\ fnIn.op = "persist" /\ fnOut = <<>>
    /\ fnOut' = <<load_state(File(save_state(fnIn.accounts, fnIn.meta)),
                             SymbolOrder, R(100, 1))>>
    /\ UNCHANGED <<engineVars, storeVars, fnIn, disk, sv, driverVars, feedVars>>

\* load_state(cfg, start_balances) on the file at cfg.state_path
CallLoad ==
    /\ fnIn.op \in {"load", "save"} /\ fnOut = <<>>
    /\ fnIn.op = "save" => sv = "returned"
    /\ fnOut' = <<load_state(disk, SymbolOrder, R(100, 1))>>
    /\ UNCHANGED <<engineVars, storeVars, fnIn, disk, sv, driverVars, feedVars>>

\* save_state: open(cfg.state_path, "w") truncates the file, or raises and
\* leaves it as it was
SaveOpen ==
    /\ fnIn.op = "save" /\ sv = "idle"
    /\ \/ disk' = Unparseable /\ sv' = "dump"
       \/ disk' = disk /\ sv' = "returned"
    /\ UNCHANGED <<engineVars, storeVars, fnIn, fnOut, driverVars, feedVars>>

\* save_state: json.dump writes the document and the file is closed
SaveDump ==
    /\ fnIn.op = "save" /\ sv = "dump"
    /\ disk' = File(save_state(fnIn.accounts, fnIn.meta))
    /\ sv' = "returned"
    /\ UNCHANGED <<engineVars, storeVars, fnIn, fnOut, driverVars, feedVars>>

\* save_state: json.dump raises part-way and "except Exception: pass"
\* returns; what was written so far stays in the file
SaveFail ==
    /\ fnIn.op = "save" /\ sv = "dump"
    /\ sv' = "returned"
    /\ UNCHANGED <<engineVars, storeVars, fnIn, fnOut, disk, driverVars, feedVars>>

\* one poll cycle, or one stream message, on the books fnIn.prev
CallFeed ==
    /\ fnIn.op \in {"poll", "message"} /\ fnOut = <<>>
    /\ fnOut' = IF fnIn.op = "poll"
                THEN <<rest_poll_cycle(fnIn.prev, fnIn.resp)>>
                ELSE <<[store |-> on_message(fnIn.prev, fnIn.msg), next |-> "returned"]>>
    /\ UNCHANGED <<engineVars, storeVars, fnIn, disk, sv, driverVars, feedVars>>

\* one step on the market, then its settlement, on the accounts dict
CallFrame ==
    /\ fnIn.op = "frame" /\ fnOut = <<>>
    /\ fnOut' = <<[stepped |-> StepAccounts(fnIn.accounts, fnIn.mkt, fnIn.mode, fnIn.st),
                   settled |-> SettleAccounts(
                                   StepAccounts(fnIn.accounts, fnIn.mkt, fnIn.mode, fnIn.st),
                                   fnIn.mkt, fnIn.winner)]>>
    /\ UNCHANGED <<engineVars, storeVars, fnIn, disk, sv, driverVars, feedVars>>

NextFn ==
    \/ CallFrame
    \/ CallFeed
    \/ CallConsume
    \/ CallUpdate
    \/ CallSaveLoad
    \/ CallLoad
    \/ SaveOpen
    \/ SaveDump
    \/ SaveFail
SpecFn == InitFn /\ [][NextFn]_vars

(***************************************************************************)
(* The order-book store under its three threads: the streaming callback    *)
(* thread ("ws") and the poll worker ("poll") call update_from_snapshot,   *)
(* the driver calls get and then reads the book it was handed.  OrderBook  *)
(* objects live in heap; _books maps a token to an object id.              *)
(***************************************************************************)
MaxUpdates == 3     \* update_from_snapshot calls in one run

Writers == {"ws", "poll"}
StoreSnaps ==
    {[bids |-> <<Raw(40, 1, 1)>>, asks |-> <<Raw(50, 1, 1)>>],
     [bids |-> <<Raw(42, 2, 1), Raw(45, 2, 1)>>,
      asks |-> <<Raw(60, 2, 1), Raw(55, 2, 1)>>]}

WkIdle == [pc |-> "idle", token |-> "UP", snap |-> <<>>, id |-> 0]
RdIdle == [pc |-> "idle", token |-> "UP", ref |-> 0, bids |-> <<>>, asks |-> <<>>,
           expect |-> <<>>]

InitStore ==
    /\ InitEngine({R(100, 1)}, {"threshold35"})
    /\ FnIdle /\ DriverIdle /\ FeedIdle
    /\ heap = <<>>
    /\ books = [t \in Sides |-> 0]
    /\ lock = "free"
    /\ wk = [w \in Writers |-> WkIdle]
    /\ rd = RdIdle
    /\ latest = [t \in Sides |-> <<>>]
    /\ nUpd = 0

NewBookId_Reuse(t) == IF books[t] # 0 THEN books[t] ELSE Len(heap) + 1

\* ob = OrderBook(): every update builds an object of its own
NewBookId(t) == Len(heap) + 1

\* lines 195-213: a fresh OrderBook, and bb / aa built and sorted in locals
W_Begin(w) ==
    /\ wk[w].pc = "idle" /\ nUpd < MaxUpdates
    /\ \E t \in Sides, snap \in StoreSnaps :
        LET id == NewBookId(t)
        IN  /\ heap' = IF id > Len(heap) THEN Append(heap, EmptyBook) ELSE heap
            /\ wk' = [wk EXCEPT ![w] = [pc |-> "set_bids", token |-> t,
                                        snap |-> <<snap>>, id |-> id]]
    /\ nUpd' = nUpd + 1
    /\ UNCHANGED <<books, lock, rd, latest>>
    /\ UNCHANGED <<engineVars, fnVars, driverVars, feedVars>>

\* ob.bids = bb
W_SetBids(w) ==
    /\ wk[w].pc = "set_bids"
    /\ heap' = [heap EXCEPT ![wk[w].id].bids = SortBids(ParseLevels(wk[w].snap[1].bids))]
    /\ wk' = [wk EXCEPT ![w].pc = "set_asks"]
    /\ UNCHANGED <<books, lock, rd, latest, nUpd>>
    /\ UNCHANGED <<engineVars, fnVars, driverVars, feedVars>>

\* ob.asks = aa
W_SetAsks(w) ==
    /\ wk[w].pc = "set_asks"
    /\ heap' = [heap EXCEPT ![wk[w].id].asks = SortAsks(ParseLevels(wk[w].snap[1].asks))]
    /\ wk' = [wk EXCEPT ![w].pc = "acquire"]
    /\ UNCHANGED <<books, lock, rd, latest, nUpd>>
    /\ UNCHANGED <<engineVars, fnVars, driverVars, feedVars>>

\* with self._lock:
W_Acquire(w) ==
    /\ wk[w].pc = "acquire" /\ lock = "free"
    /\ lock' = w
    /\ wk' = [wk EXCEPT ![w].pc = "publish"]
    /\ UNCHANGED <<heap, books, rd, latest, nUpd>>
    /\ UNCHANGED <<engineVars, fnVars, driverVars, feedVars>>

\* self._books[token_id] = ob, and the lock is given back: the update is complete
W_Publish(w) ==
    /\ wk[w].pc = "publish" /\ lock = w
    /\ books' = [books EXCEPT ![wk[w].token] = wk[w].id]
    /\ latest' = [latest EXCEPT ![wk[w].token] = wk[w].snap]
    /\ lock' = "free"
    /\ wk' = [wk EXCEPT ![w] = WkIdle]
    /\ UNCHANGED <<heap, rd, nUpd>>
    /\ UNCHANGED <<engineVars, fnVars, driverVars, feedVars>>

\* get(token): with self._lock:
R_Acquire ==
    /\ rd.pc = "idle" /\ lock = "free"
    /\ \E t \in Sides : rd' = [RdIdle EXCEPT !.pc = "lookup", !.token = t]
    /\ lock' = "driver"
    /\ UNCHANGED <<heap, books, wk, latest, nUpd>>
    /\ UNCHANGED <<engineVars, fnVars, driverVars, feedVars>>

\* return self._books.get(token_id, OrderBook()); ref 0 is that fresh empty book
R_Lookup ==
    /\ rd.pc = "lookup" /\ lock = "driver"
    /\ rd' = [rd EXCEPT !.pc = "read_bids", !.ref = books[rd.token],
                        !.expect = latest[rd.token]]
    /\ lock' = "free"
    /\ UNCHANGED <<heap, books, wk, latest, nUpd>>
    /\ UNCHANGED <<engineVars, fnVars, driverVars, feedVars>>

\* the driver reads the bids of the book it holds (best_bid)
R_ReadBids ==
    /\ rd.pc = "read_bids"
    /\ rd' = [rd EXCEPT !.pc = "read_asks",
                        !.bids = IF rd.ref = 0 THEN <<>> ELSE heap[rd.ref].bids]
    /\ UNCHANGED <<heap, books, lock, wk, latest, nUpd>>
    /\ UNCHANGED <<engineVars, fnVars, driverVars, feedVars>>

\* the driver reads its asks (best_ask, consume_asks_for_buy)
R_ReadAsks ==
    /\ rd.pc = "read_asks"
    /\ rd' = [rd EXCEPT !.pc = "done",
                        !.asks = IF rd.ref = 0 THEN <<>> ELSE heap[rd.ref].asks]
    /\ UNCHANGED <<heap, books, lock, wk, latest, nUpd>>
    /\ UNCHANGED <<engineVars, fnVars, driverVars, feedVars>>

\* the driver is done with the book
R_Drop ==
    /\ rd.pc = "done"
    /\ rd' = RdIdle
    /\ UNCHANGED <<heap, books, lock, wk, latest, nUpd>>
    /\ UNCHANGED <<engineVars, fnVars, driverVars, feedVars>>

Writer == \E w \in Writers :
    W_Begin(w) \/ W_SetBids(w) \/ W_SetAsks(w) \/ W_Acquire(w) \/ W_Publish(w)
Reader == R_Acquire \/ R_Lookup \/ R_ReadBids \/ R_ReadAsks \/ R_Drop
NextStore == Writer \/ Reader
SpecStore == InitStore /\ [][NextStore]_vars

(***************************************************************************)
(* main()'s loop over a sequence of markets.  The clock counts units of    *)
(* settle_grace_sec (5 s); an iteration of the loop takes no full unit.    *)
(* What engine.step buys and what settle_market decides is told by Spec;   *)
(* here a step may or may not leave a position on the bound market, and a  *)
(* settlement redeems it and writes one MarketResult.                      *)
(***************************************************************************)
MaxClock == 6       \* clock units in one run

Grace == 1          \* settle_grace_sec
Refresh == 2        \* discovery_refresh_sec

Markets == {"m1", "m2"}
\* endDateIso of the two markets of the series
end_time == [m \in Markets |-> IF m = "m1" THEN 2 ELSE 4]

InitDriver ==
    /\ InitEngine({R(100, 1)}, {"threshold35"}) /\ StoreIdle /\ FnIdle /\ FeedIdle
    /\ active = None
    /\ clock = 0
    /\ lastDisc = 0
    /\ listed \in {{"m1"}, {"m1", "m2"}}
    /\ held = [m \in Markets |-> FALSE]
    /\ nRes = [m \in Markets |-> 0]
    /\ nBind = 0

\* future = [c for c in candidates if c.end_time >= now]
Future(L, now) == {m \in L : end_time[m] >= now}
\* future.sort(key=end_time); future[0]
Earliest(S) == CHOOSE m \in S : \A o \in S : end_time[m] <= end_time[o]
\* candidates.sort(key=abs(end_time - now)); candidates[0]
Closest(S, now) ==
    CHOOSE m \in S : \A o \in S : Abs(end_time[m] - now) <= Abs(end_time[o] - now)

discover_next_market(L, now) ==
    IF L = {} THEN None
    ELSE IF Future(L, now) # {} THEN Earliest(Future(L, now))
    ELSE Closest(L, now)

\* line 846: the discovery returned a market and none is bound, or its
\* slug differs from the bound one's
Binds(nxt) == nxt # None /\ (active = None \/ nxt # active)

\* lines 846-848: the market bound after a discovery that returned nxt
Rebind(nxt) ==
    IF nxt # None /\ (active = None \/ nxt # active) THEN nxt ELSE active

\* The account of the bound market's symbol is followed here only through
\* held; the step is taken on an account with the starting balance, against
\* a pair of books the feed may have stored: either side cheap against an
\* expensive one, a side below the DCA ladder, both expensive, one unquoted.
DriverAccounts ==
    {[cash |-> R(100, 1), pos |-> [t \in Sides |-> NoPosition],
      fills |-> <<>>, calls |-> <<>>]}
DriverBooks ==
    {[t \in Sides |-> BookOf(IF t = "UP" THEN pair[1] ELSE pair[2])] :
        pair \in {<<SnapDeep, SnapHigh>>, <<SnapHigh, SnapDeep>>,
                  <<SnapLow, SnapHigh>>, <<SnapHigh, SnapHigh>>,
                  <<SnapNoBid, SnapDeep>>}}

\* engine.step (line 867) from the scratch state e: the scratch state it leaves
EngineStep(e, acct, st) == step([a |-> acct, e |-> e, hung |-> FALSE], mode, st)

\* lines 862-884 with the market a bound and the engine's scratch state e:
\* engine.step, then settle_market once now is at or past
\* end_time + settle_grace_sec
Iterate(a, e) ==
    IF a = None
    THEN /\ active' = None
         /\ primary' = e.primary /\ thr' = e.thr /\ done' = e.done
         /\ trace' = NoTrace
         /\ UNCHANGED <<held, nRes>>
    ELSE /\ \E x \in {EngineStep(e, acct, st) :
                          acct \in DriverAccounts, st \in DriverBooks} :
             /\ ~x.hung
             /\ primary' = x.e.primary
             /\ thr' = x.e.thr
             /\ done' = x.e.done
             /\ trace' = [calls |-> x.a.calls, fills |-> x.a.fills]
         /\ IF clock >= end_time[a] + Grace
            THEN /\ nRes[a] < MaxSettles
                 /\ nRes' = [nRes EXCEPT ![a] = @ + 1]
                 /\ held' = [held EXCEPT ![a] = FALSE]
                 /\ active' = None
            ELSE /\ \E buy \in BOOLEAN : held' = [held EXCEPT ![a] = @ \/ buy]
                 /\ active' = a
                 /\ UNCHANGED nRes

\* the discovery block of an iteration (lines 842-848) on the result nxt,
\* then the rest of the iteration
Discovered(nxt) ==
    /\ Iterate(Rebind(nxt), IF Binds(nxt) THEN reset_for_new_market ELSE Scratch)
    /\ nBind' = IF Binds(nxt) THEN nBind + 1 ELSE nBind

\* an iteration that refreshes discovery first; the listing request may fail
LoopDiscover ==
    /\ active = None \/ clock - lastDisc >= Refresh
    /\ lastDisc' = clock
    /\ \E ok \in BOOLEAN :
        Discovered(IF ok THEN discover_next_market(listed, clock) ELSE None)
    /\ UNCHANGED <<clock, listed>>
    /\ UNCHANGED <<mode, store, cash, cash0, pos, pc, polls, result>>
    /\ UNCHANGED <<storeVars, fnVars, feedVars>>

\* an iteration between two refreshes
LoopKeep ==
    /\ ~(active = None \/ clock - lastDisc >= Refresh)
    /\ Iterate(active, Scratch)
    /\ UNCHANGED <<clock, lastDisc, listed, nBind>>
    /\ UNCHANGED <<mode, store, cash, cash0, pos, pc, polls, result>>
    /\ UNCHANGED <<storeVars, fnVars, feedVars>>

\* time passes
Pass ==
    /\ clock < MaxClock
    /\ clock' = clock + 1
    /\ UNCHANGED <<active, lastDisc, listed, held, nRes, nBind>>
    /\ UNCHANGED <<engineVars, storeVars, fnVars, feedVars>>

\* the listing API starts to return a market that has not ended yet
Appear ==
    /\ \E m \in Markets \ listed : clock <= end_time[m] /\ listed' = listed \cup {m}
    /\ UNCHANGED <<active, clock, lastDisc, held, nRes, nBind>>
    /\ UNCHANGED <<engineVars, storeVars, fnVars, feedVars>>

\* the listing API stops returning a market that has ended (closed)
Close ==
    /\ \E m \in listed : clock > end_time[m] /\ listed' = listed \ {m}
    /\ UNCHANGED <<active, clock, lastDisc, held, nRes, nBind>>
    /\ UNCHANGED <<engineVars, storeVars, fnVars, feedVars>>

NextDriver == LoopDiscover \/ LoopKeep \/ Pass \/ Appear \/ Close
SpecDriver == InitDriver /\ [][NextDriver]_vars

(***************************************************************************)
(* MarketFeed: the driver thread inside set_token_ids / stop / start, the  *)
(* REST poll workers and the stream supervisors it has started.            *)
(* A thread is [kind, pc, sub, k, closed]: sub is the token pair a stream   *)
(* subscribed to in on_open, k the back-off sleeps done, closed that       *)
(* close() was called on its socket.                                       *)
(* join(timeout=2) returns when the thread has exited; it returns with the *)
(* thread alive only when the thread sits in a call that can block for     *)
(* longer than the timeout: requests.post(timeout=10), or run_forever on a *)
(* socket nobody closed.                                                   *)
(***************************************************************************)
MaxRebinds == 2     \* set_token_ids calls in one run
MaxThreads == 2 * (MaxRebinds + 1)   \* threads started in one run: 2 at start, 2 a rebind
BackoffChecks == 2  \* passes of the back-off loop, 0.5 s each

TokenSets == {"A", "B"}

NewThread(kind) ==
    [kind |-> kind, pc |-> "top", sub |-> None, k |-> 0, closed |-> FALSE]

\* MarketFeed(...) and feed.start() on the first market's tokens
InitFeed ==
    /\ InitEngine({R(100, 1)}, {"threshold35"})
    /\ StoreIdle /\ FnIdle /\ DriverIdle
    /\ prefer_ws \in BOOLEAN
    /\ stopEv = FALSE
    /\ token_ids = "A"
    /\ threads = IF prefer_ws THEN <<NewThread("ws"), NewThread("poll")>>
                               ELSE <<NewThread("poll")>>
    /\ refs = IF prefer_ws THEN [thread |-> 2, ws_thread |-> 1, ws |-> 0]
                            ELSE [thread |-> 1, ws_thread |-> 0, ws |-> 0]
    /\ fd = [pc |-> "idle", arg |-> None, nBefore |-> 0, n |-> 0]

Alive(i) == threads[i].pc # "exited"

\* the thread sits in a call that can outlast join's timeout
Blocking(t) ==
    \/ t.kind = "poll" /\ t.pc = "busy"
    \/ t.kind = "ws" /\ t.pc = "running" /\ ~t.closed

\* thread.join(timeout=2) on thread i (0: None) can return
JoinReturns(i) ==
    IF i = 0 THEN TRUE
    ELSE IF ~Alive(i) THEN TRUE
    ELSE Blocking(threads[i])

\* MarketFeed.stop, one statement a step.  It is called from set_token_ids
\* (fd.arg is the new token set) or by itself (fd.arg = None), and then the
\* feed is left "stopped".
stop ==
    /\ \/ /\ fd.pc = "idle"
          /\ fd' = [fd EXCEPT !.pc = "stop", !.arg = None,
                              !.nBefore = Len(threads)]
          /\ UNCHANGED <<stopEv, threads>>
       \/ /\ fd.pc = "stop"
          /\ stopEv' = TRUE
          /\ fd' = [fd EXCEPT !.pc = "close"]
          /\ UNCHANGED threads
       \/ /\ fd.pc = "close"
          /\ threads' = IF refs.ws # 0 /\ threads[refs.ws].pc = "running"
                         THEN [threads EXCEPT ![refs.ws].closed = TRUE]
                         ELSE threads
          /\ fd' = [fd EXCEPT !.pc = "join_thread"]
          /\ UNCHANGED stopEv
       \/ /\ fd.pc = "join_thread"
          /\ JoinReturns(refs.thread)
          /\ fd' = [fd EXCEPT !.pc = "join_ws"]
          /\ UNCHANGED <<stopEv, threads>>
       \/ /\ fd.pc = "join_ws"
          /\ JoinReturns(refs.ws_thread)
          /\ fd' = [fd EXCEPT !.pc = IF fd.arg = None THEN "stopped" ELSE "assign"]
          /\ UNCHANGED <<stopEv, threads>>
    /\ UNCHANGED <<prefer_ws, token_ids, refs>>
    /\ UNCHANGED <<engineVars, storeVars, fnVars, driverVars>>

\* MarketFeed.start: _stop.clear(), then _start_ws or _start_rest_poll
start ==
    /\ fd.pc = "start"
    /\ stopEv' = FALSE
    /\ threads' = IF prefer_ws
                   THEN threads \o <<NewThread("ws"), NewThread("poll")>>
                   ELSE threads \o <<NewThread("poll")>>
    /\ refs' = IF prefer_ws
                THEN [refs EXCEPT !.ws_thread = Len(threads) + 1,
                                  !.thread = Len(threads) + 2]
                ELSE [refs EXCEPT !.thread = Len(threads) + 1]
    /\ fd' = [fd EXCEPT !.pc = "returned"]
    /\ UNCHANGED <<prefer_ws, token_ids>>
    /\ UNCHANGED <<engineVars, storeVars, fnVars, driverVars>>

\* MarketFeed.set_token_ids but for stop() and start(): the call with its
\* test of the new list, the assignment between stop and start, the return
set_token_ids ==
    /\ \/ /\ fd.pc = "idle" /\ fd.n < MaxRebinds
          /\ \E new \in TokenSets :
                fd' = [pc |-> IF new = token_ids THEN "returned" ELSE "stop",
                       arg |-> new, nBefore |-> Len(threads), n |-> fd.n + 1]
          /\ UNCHANGED token_ids
       \/ /\ fd.pc = "assign"
          /\ token_ids' = fd.arg
          /\ fd' = [fd EXCEPT !.pc = "start"]
       \/ /\ fd.pc = "returned"
          /\ fd' = [fd EXCEPT !.pc = "idle"]
          /\ UNCHANGED token_ids
    /\ UNCHANGED <<prefer_ws, stopEv, threads, refs>>
    /\ UNCHANGED <<engineVars, storeVars, fnVars, driverVars>>

\* KeyboardInterrupt reaches the driver thread: main() has no handler and
\* no finally, the module's handler calls sys.exit(0), and the daemon
\* threads end with the process, wherever they are
Interrupt ==
    /\ fd.pc # "exit"
    /\ fd' = [fd EXCEPT !.pc = "exit"]
    /\ UNCHANGED <<prefer_ws, stopEv, token_ids, threads, refs>>
    /\ UNCHANGED <<engineVars, storeVars, fnVars, driverVars>>

\* MarketFeed._rest_poll_loop in thread i: the loop test, then one request
\* for the books of self.token_ids with the sleep after it
rest_poll_loop(i) ==
    /\ fd.pc # "exit"
    /\ threads[i].kind = "poll"
    /\ \/ /\ threads[i].pc = "top"
          /\ threads' = IF stopEv
                         THEN [threads EXCEPT ![i].pc = "exited"]
                         ELSE [threads EXCEPT ![i].pc = "busy"]
       \/ /\ threads[i].pc = "busy"
          /\ threads' = [threads EXCEPT ![i].pc = "top"]
    /\ UNCHANGED <<prefer_ws, stopEv, token_ids, refs, fd>>
    /\ UNCHANGED <<engineVars, storeVars, fnVars, driverVars>>

\* on_open of thread i's socket: the subscription for self.token_ids
on_open(i) ==
    /\ fd.pc # "exit"
    /\ threads[i].kind = "ws" /\ threads[i].pc = "running"
    /\ threads[i].sub = None /\ ~threads[i].closed
    /\ threads' = [threads EXCEPT ![i].sub = token_ids]
    /\ UNCHANGED <<prefer_ws, stopEv, token_ids, refs, fd>>
    /\ UNCHANGED <<engineVars, storeVars, fnVars, driverVars>>

\* lines 295-298: the back-off loop of ws_supervisor in thread i
ws_backoff(i) ==
    /\ threads[i].pc = "backoff"
    /\ threads' = IF stopEv
                   THEN [threads EXCEPT ![i].pc = "broke", ![i].k = 0]
                   ELSE IF threads[i].k < BackoffChecks
                   THEN [threads EXCEPT ![i].k = @ + 1]
                   ELSE [threads EXCEPT ![i].pc = "top", ![i].k = 0]
    /\ UNCHANGED refs

\* lines 288-293: the loop test of ws_supervisor in thread i (at the top,
\* or after the break out of the back-off loop), and the new WebSocketApp
\* with run_forever on it
ws_connect(i) ==
    \/ /\ threads[i].pc \in {"top", "broke"}
       /\ threads' = IF stopEv
                      THEN [threads EXCEPT ![i].pc = "exited"]
                      ELSE [threads EXCEPT ![i].pc = "connect"]
       /\ UNCHANGED refs
    \/ /\ threads[i].pc = "connect"
       /\ threads' = [threads EXCEPT ![i].pc = "running"]
       /\ refs' = [refs EXCEPT !.ws = i]

\* run_forever returns or raises in thread i: the connection failed to
\* open, broke, or was closed
ws_end(i) ==
    /\ threads[i].pc = "running"
    /\ threads' = [threads EXCEPT ![i].pc = "backoff", ![i].sub = None,
                                   ![i].closed = FALSE]
    /\ UNCHANGED refs

\* the steps of ws_supervisor the thread takes by itself
ws_supervisor(i) ==
    /\ fd.pc # "exit"
    /\ threads[i].kind = "ws"
    /\ ws_connect(i) \/ ws_backoff(i)
    /\ UNCHANGED <<prefer_ws, stopEv, token_ids, fd>>
    /\ UNCHANGED <<engineVars, storeVars, fnVars, driverVars>>

\* the step of ws_supervisor the network decides
ws_disconnect(i) ==
    /\ fd.pc # "exit"
    /\ threads[i].kind = "ws"
    /\ ws_end(i)
    /\ UNCHANGED <<prefer_ws, stopEv, token_ids, fd>>
    /\ UNCHANGED <<engineVars, storeVars, fnVars, driverVars>>

PollWorker == \E i \in DOMAIN threads : rest_poll_loop(i)
StreamOpen == \E i \in DOMAIN threads : on_open(i)
Supervisor == \E i \in DOMAIN threads : ws_supervisor(i)
Disconnect == \E i \in DOMAIN threads : ws_disconnect(i)

NextFeed ==
    \/ set_token_ids \/ stop \/ start \/ Interrupt
    \/ PollWorker \/ StreamOpen \/ Supervisor \/ Disconnect

\* every thread the operating system has started keeps being scheduled, a
\* request of the poll worker returns (timeout=10), and run_forever returns
\* on a socket that close() was called on
SpecFeed ==
    /\ InitFeed /\ [][NextFeed]_vars
    /\ \A i \in 1..MaxThreads : WF_vars(i \in DOMAIN threads /\ ws_supervisor(i))
    /\ \A i \in 1..MaxThreads : WF_vars(i \in DOMAIN threads /\ rest_poll_loop(i))
    /\ \A i \in 1..MaxThreads :
          WF_vars(i \in DOMAIN threads /\ threads[i].closed /\ ws_disconnect(i))

(***************************************************************************)
(* Properties                                                              *)
(***************************************************************************)
Calls == {trace.calls[i] : i \in DOMAIN trace.calls}
Positive(x) == RLt(Zero, x)

\* what the ladder walk gives the call, from the book the tick read
SimOf(c) == consume_asks_for_buy(store[c.token].asks, c.usd)
ShortOfCash(c) == RLt(c.cash, RAdd(c.usd, require_free_cash))
Accepted(c) == ~ShortOfCash(c) /\ Positive(c.usd) /\ Positive(SimOf(c).shares)

\* C1: when settle_market returns, both tokens' positions are (0 shares,
\* 0 cost) and cash has grown by exactly the shares held on the winning
\* token before the call; the losing token's shares add nothing.
C1_SettlementRedeemsWinner ==
    [][(pc = "settle" /\ pc' = "idle") =>
        /\ \A t \in Sides : pos'[t] = [shares |-> Zero, cost_usd |-> Zero]
        /\ result'[1].winner \in Sides
        /\ cash' = RAdd(cash, pos[result'[1].winner].shares)]_vars

C1_Witness ==
    /\ pc = "idle" /\ result # <<>>
    /\ Positive(result[1].up_shares) /\ Positive(result[1].down_shares)
    /\ result[1].up_shares # result[1].down_shares

\* C2: a _maybe_buy call made with cash < usd + require_free_cash, or on a
\* book whose ask ladder yields zero fillable shares, changes neither cash
\* nor any position and hands no Fill to the logger.
C2_RejectedBuyIsNoOp ==
    \A c \in Calls :
        (ShortOfCash(c) \/ ~Positive(SimOf(c).shares)) =>
            /\ c.cash2 = c.cash
            /\ c.pos2 = c.pos
            /\ c.nfills2 = c.nfills

C2_Witness ==
    \E c \in Calls :
        /\ ShortOfCash(c) /\ Positive(SimOf(c).shares)
        /\ Positive(c.cash) /\ Positive(c.pos[c.token].shares)

C4_SideSpendWithinCap ==
    mode = "threshold35" =>
        \A t \in Sides : RLe(pos[t].cost_usd, max_side_spend_usd)

\* C5: right after every hedge fill, primary avg_price + hedge avg_price
\* is below sum_cap_dollars.
C5_HedgeFillBelowSumCap ==
    \A c \in Calls :
        (c.note = "hedge_chunk_sumcap_ok" /\ c.nfills2 > c.nfills) =>
            RLt(RAdd(avg_price(c.pos2["UP"]), avg_price(c.pos2["DOWN"])),
                sum_cap_dollars)

\* C6: within one market next_dca_threshold[side] starts at the entry
\* threshold, never rises, drops by dca_step_cents/100 with every DCA
\* trigger on that side, and after a trigger lies in [0.01, 0.99].
C6_DcaThresholdsDescend ==
    [][\A s \in Sides :
        /\ done[s] = 0 => thr[s] = Cents(35)
        /\ RLe(thr'[s], thr[s])
        /\ done'[s] \in {done[s], done[s] + 1}
        /\ done'[s] = done[s] => thr'[s] = thr[s]
        /\ done'[s] = done[s] + 1 =>
            /\ thr'[s] = RSub(thr[s], Cents(5))
            /\ RLe(Cents(1), thr'[s]) /\ RLe(thr'[s], Cents(99))]_vars

C6_Witness == \E s \in Sides : done[s] = 4 /\ thr[s] = Cents(15)

\* C10: a settlement whose wait timed out without a signal compares the
\* two best bids, a missing bid counting as 0: UP wins if up_bid >
\* down_bid, DOWN if down_bid > up_bid, and a tie (both books empty
\* included) goes to UP.  (The books of a settled market stay as the
\* settlement read them.)
BidOrZero(b) == IF b = NoneF THEN Zero ELSE b

C10_ForcedWinnerByBestBid ==
    (pc = "idle" /\ result[1].forced) =>
        LET u == BidOrZero(best_bid(store["UP"]))
            d == BidOrZero(best_bid(store["DOWN"]))
        IN  /\ RLt(d, u) => result[1].winner = "UP"
            /\ RLt(u, d) => result[1].winner = "DOWN"
            /\ u = d => result[1].winner = "UP"

C10_Witness ==
    /\ pc = "idle" /\ result[1].forced
    /\ best_bid(store["UP"]) = best_bid(store["DOWN"])
    /\ best_bid(store["UP"]) # NoneF
    /\ result[1].winner = "UP"

\* C7: consume_asks_for_buy equals the reference walk over the ascending
\* ladder: every level in front of the one where the budget runs out is
\* taken whole, that level for what is left of the budget; spent <= budget,
\* shares <= the sum of the sizes, avg = spent / shares, and (0, 0, 0) when
\* no share can be had.  asks [(0.10, 5), (0.12, 10)] with 1.10 USD give 10
\* shares at 0.11.
RECURSIVE SumCost(_, _)
SumCost(asks, k) ==
    IF k = 0 THEN Zero
    ELSE RAdd(SumCost(asks, k - 1), RMul(asks[k].price, asks[k].size))

RECURSIVE SumSize(_, _)
SumSize(asks, k) == IF k = 0 THEN Zero ELSE RAdd(SumSize(asks, k - 1), asks[k].size)

ReferenceWalk(asks, usd) ==
    LET n == Len(asks)
        k == CHOOSE j \in 0..n :
                /\ RLe(SumCost(asks, j), usd)
                /\ j = n \/ RLt(usd, SumCost(asks, j + 1))
    IN  IF k = n
        THEN [shares |-> SumSize(asks, n), spent |-> SumCost(asks, n)]
        ELSE [shares |-> RAdd(SumSize(asks, k),
                              RDiv(RSub(usd, SumCost(asks, k)), asks[k + 1].price)),
              spent |-> usd]

ExampleLadder == <<Lvl(Cents(10), R(5, 1)), Lvl(Cents(12), R(10, 1))>>

C7_ConsumeIsReferenceWalk ==
    (fnOut # <<>> /\ fnIn.op = "consume") =>
        LET out == fnOut[1]
            ref == ReferenceWalk(fnIn.asks, fnIn.usd)
        IN  /\ out.shares = ref.shares
            /\ out.spent = ref.spent
            /\ RLe(out.spent, fnIn.usd)
            /\ RLe(out.shares, SumSize(fnIn.asks, Len(fnIn.asks)))
            /\ Positive(out.shares) => RMul(out.avg, out.shares) = out.spent
            /\ ~Positive(out.shares) =>
                   out = [shares |-> Zero, avg |-> Zero, spent |-> Zero]
            /\ (fnIn.asks = ExampleLadder /\ fnIn.usd = R(11, 10)) =>
                   out.shares = R(10, 1) /\ out.avg = Cents(11)

C7_Witness ==
    /\ fnOut # <<>> /\ fnIn.op = "consume"
    /\ fnIn.asks = ExampleLadder /\ fnIn.usd = R(11, 10)
    /\ fnOut[1].shares = R(10, 1)

\* C9: a book stored by update_from_snapshot has its bids in descending and
\* its asks in ascending price order: best_bid() is >= every stored bid
\* price and best_ask() is <= every stored ask price, and each is None
\* exactly when its side is empty.
C9_StoredBookIsOrdered ==
    \A t \in Sides :
        LET ob == store[t]
        IN  /\ Descending(ob.bids) /\ Ascending(ob.asks)
            /\ \A i \in DOMAIN ob.bids : RLe(ob.bids[i].price, best_bid(ob))
            /\ \A i \in DOMAIN ob.asks : RLe(best_ask(ob), ob.asks[i].price)
            /\ best_bid(ob) = NoneF <=> ob.bids = <<>>
            /\ best_ask(ob) = NoneF <=> ob.asks = <<>>

C9_Witness ==
    /\ fnOut # <<>> /\ fnIn.op = "update"
    /\ Len(fnIn.bids) = 2 /\ Len(fnIn.asks) = 2
    /\ LET ob == store[fnIn.token]
       IN  /\ Len(ob.bids) = 2 /\ Len(ob.asks) = 2
           /\ RLt(ob.bids[2].price, ob.bids[1].price)
           /\ RLt(ob.asks[1].price, ob.asks[2].price)
           /\ ob.bids[1].price = R(fnIn.bids[2].price[1], fnIn.bids[2].price[2])
           /\ ob.asks[1].price = R(fnIn.asks[2].price[1], fnIn.asks[2].price[2])

\* C8: with both feed threads calling update_from_snapshot while the
\* driver calls get, the book the driver is handed and reads is the bids
\* and asks of one completed update for that token, the last one completed
\* when get looked it up, and the empty book if none had completed.
C8_GetReturnsOneWholeUpdate ==
    rd.pc = "done" =>
        [bids |-> rd.bids, asks |-> rd.asks] =
            IF rd.expect = <<>> THEN EmptyBook ELSE BookOf(rd.expect[1])

\* the driver holds the book of an update that was replaced, by the other
\* thread's later update of the same token, before the driver finished reading
C8_Witness ==
    /\ rd.pc = "done" /\ rd.ref # 0
    /\ books[rd.token] # rd.ref
    /\ latest[rd.token] # rd.expect
    /\ \E w \in Writers : wk[w].pc # "idle" /\ wk[w].token = rd.token

\* a side's best bid is at or above settle_signal_bid
Signals(side) ==
    best_bid(store[side]) # NoneF /\ RLe(settle_signal_bid, best_bid(store[side]))

\* C11: a poll of the settlement wait that finds either side's best bid at
\* or above settle_signal_bid ends the wait with that side as the winner,
\* whatever the other side's book holds; UP when both are there.
C11_SignalEndsWait ==
    [][(pc = "settle" /\ polls < MaxPolls /\ store' = store
        /\ (Signals("UP") \/ Signals("DOWN")))
       => /\ pc' = "idle"
          /\ result' # <<>>
          /\ result'[1].winner = IF Signals("UP") THEN "UP" ELSE "DOWN"
          /\ ~result'[1].forced]_vars

\* C12: once settle_market is entered it returns, with a winner in
\* {UP, DOWN}, whatever the feed does or fails to do meanwhile.
C12_SettlementTerminates ==
    (pc = "settle") ~> (pc = "idle" /\ result # <<>> /\ result[1].winner \in Sides)

\* settled by force after a wait in which no book was ever published
C12_Witness ==
    /\ pc = "idle" /\ result # <<>> /\ result[1].forced
    /\ \A t \in Sides : store[t] = EmptyBook

\* C13: every call of engine.step returns: the driver is never left
\* inside the hedge loop.
C13_StepTerminates == pc # "hung"

\* C14: over any run of the driver loop no market is settled twice: at
\* most one MarketResult per market.
C14_SettledOncePerMarket == \A m \in Markets : nRes[m] <= 1

\* C15: positions bought in a market are not left in the account once the
\* driver has moved on: a market holding a position is the bound market.
C15_NoStrandedPosition == \A m \in Markets : held[m] => active = m

\* C16: save_state followed by load_state gives back, for every symbol,
\* the same cash and the same token id -> (shares, cost) map, and the same
\* meta.
C16_SaveLoadRoundTrip ==
    (fnIn # <<>> /\ fnIn.op = "persist" /\ fnOut # <<>>) =>
        /\ fnOut[1].meta = fnIn.meta
        /\ DOMAIN fnOut[1].accounts = PersistSymbols
        /\ \A sym \in PersistSymbols :
            /\ fnOut[1].accounts[sym].cash = fnIn.accounts[sym].cash
            /\ fnOut[1].accounts[sym].positions = fnIn.accounts[sym].positions

\* round trip of an account with no cash next to one holding a position,
\* with a meta that names the last settled market
C16_Witness ==
    /\ fnIn # <<>> /\ fnIn.op = "persist" /\ fnOut # <<>>
    /\ fnIn.accounts["BTC"].cash = Zero
    /\ DOMAIN fnIn.accounts["ETH"].positions = TokenIds
    /\ DOMAIN fnIn.meta # {}
    /\ fnOut[1].accounts["ETH"].positions["t1"].shares = R(15, 4)

\* every best bid and best ask of both tokens is there
Quoted ==
    \A s \in Sides : best_bid(store[s]) # NoneF /\ best_ask(store[s]) # NoneF

\* the side's best ask is at or below the entry threshold
Qualifies(s) == RLe(best_ask(store[s]), EntryThreshold)

\* the primary side the rule of selection gives for a tick on these books
ExpectedPrimary ==
    IF mode # "threshold35" \/ primary # None \/ ~Quoted THEN primary
    ELSE IF Qualifies("UP") THEN "UP"
    ELSE IF Qualifies("DOWN") THEN "DOWN"
    ELSE None

\* C17: in threshold mode primary is assigned only while it is None: a tick
\* sets it to UP if the UP ask is at or below the entry threshold, else to
\* DOWN if the DOWN ask is, else leaves it None; once set it never changes
\* while the market is bound, whatever the later prices.
C17_PrimarySelection ==
    [][/\ primary # None => primary' = primary
       /\ primary' \in {primary, ExpectedPrimary}
       /\ Tick => primary' = ExpectedPrimary]_vars

\* the tick that made the first buy found both asks at or below the entry
\* threshold, and UP is the primary side
C17_Witness ==
    /\ mode = "threshold35" /\ Quoted
    /\ Qualifies("UP") /\ Qualifies("DOWN")
    /\ primary = "UP" /\ done["UP"] = 1
    /\ trace.calls # <<>> /\ trace.calls[1].note = "UP_entry_or_dca"

\* the calls of the tick just taken that are primary-side (DCA) buys
DcaCalls(tr) ==
    {i \in DOMAIN tr.calls :
        tr.calls[i].note \in {"UP_entry_or_dca", "DOWN_entry_or_dca"}}

\* the tick's primary side p is due a DCA buy: its ask is at or below its
\* next threshold and its cost below the per-side cap
DcaDue(p) ==
    /\ RLe(best_ask(store[p]), thr[p])
    /\ RLt(pos[p].cost_usd, max_side_spend_usd)

\* the tick made exactly one DCA buy call, of buy_chunk_usd on p, advanced
\* p's counter and lowered p's threshold by the step
DcaFired(p) ==
    /\ DcaCalls(trace') = {1}
    /\ trace'.calls[1].token = p /\ trace'.calls[1].usd = buy_chunk_usd
    /\ done' = [done EXCEPT ![p] = @ + 1]
    /\ thr' = [thr EXCEPT ![p] = clamp(RSub(@, Cents(dca_step_cents)),
                                        Cents(1), Cents(99))]

\* the tick made no DCA buy call and left counters and thresholds alone
DcaQuiet == DcaCalls(trace') = {} /\ done' = done /\ thr' = thr

C19_UnquotedTickIsNoOp ==
    [][(Tick /\ ~Quoted)
       => /\ cash' = cash /\ pos' = pos
          /\ primary' = primary /\ thr' = thr /\ done' = done
          /\ trace' = NoTrace]_vars

\* the market went to settlement untouched, with asks on both sides that
\* would have been bought had the bids been there
C19_Witness ==
    /\ pc = "settle" /\ polls = 0
    /\ \A s \in Sides : best_ask(store[s]) # NoneF
    /\ best_bid(store["UP"]) = NoneF
    /\ Qualifies("UP")
    /\ primary = None /\ cash = cash0 /\ done["UP"] = 0

\* the tokens the tick just taken logged a Fill on
FilledTokens == {trace.fills[i].token_id : i \in DOMAIN trace.fills}

\* C20: in spread-capture mode a tick fills on both tokens or on neither,
\* never on one side only, and buys at all only when one ask is at or above
\* expensive_min, the other at or below cheap_max and their sum below
\* spread_sum_cap; primary, thresholds and DCA counters stay as
\* reset_for_new_market left them.
C20_SpreadBuysBothOrNeither ==
    mode = "spread73_22" =>
        /\ FilledTokens \in {{}, Sides}
        /\ trace.calls # <<>> =>
              /\ Quoted
              /\ \/ SpreadOk(best_ask(store["UP"]), best_ask(store["DOWN"]))
                 \/ SpreadOk(best_ask(store["DOWN"]), best_ask(store["UP"]))
        /\ primary = None
        /\ \A s \in Sides : done[s] = 0 /\ thr[s] = EntryThreshold

\* C21: from a start with cash >= 0 the account's cash is never negative,
\* over any steps of either mode and any settlement, and right after every
\* accepted buy it is at least require_free_cash.
C21_CashNeverNegative ==
    /\ RLe(Zero, cash)
    /\ \A c \in Calls :
          c.nfills2 > c.nfills =>
              /\ RLe(require_free_cash, c.cash2)
              /\ RLe(c.cash2, c.cash)

\* an accepted buy that left less cash than another chunk needs
C21_Witness ==
    \E c \in Calls :
        /\ c.nfills2 > c.nfills
        /\ RLt(c.cash2, RAdd(buy_chunk_usd, require_free_cash))

\* no two levels of the list have the same price
DistinctPrices(levels) ==
    \A i, j \in DOMAIN levels : i # j => levels[i].price # levels[j].price

\* C22: after any snapshot replace neither side of the stored book holds
\* two levels with the same price, whatever the level lists of the snapshot
\* (snapshots that repeat a price included).
C22_NoDuplicatePrices ==
    \A t \in Sides :
        DistinctPrices(store[t].bids) /\ DistinctPrices(store[t].asks)

\* a raw level with both fields there and numeric
WellFormed(l) == l.price # Bad /\ l.size # Bad

\* the (price, size) of a well-formed raw level
ValueOf(l) == Lvl(R(l.price[1], l.price[2]), R(l.size[1], l.size[2]))

\* the stored side holds the well-formed levels of the raw side, each as
\* often as the snapshot has it, and nothing else
KeepsWellFormed(stored, raw) ==
    /\ Len(stored) = Cardinality({i \in DOMAIN raw : WellFormed(raw[i])})
    /\ \A i \in DOMAIN raw :
          WellFormed(raw[i]) =>
              Cardinality({j \in DOMAIN stored : stored[j] = ValueOf(raw[i])})
                = Cardinality({j \in DOMAIN raw : /\ WellFormed(raw[j])
                                                   /\ ValueOf(raw[j]) = ValueOf(raw[i])})

\* C23: update_from_snapshot drops exactly the levels whose price or size
\* is missing or non-numeric and keeps every other level; a snapshot with
\* such levels still replaces the book, and the call returns normally.
C23_DropsExactlyMalformed ==
    (fnIn # <<>> /\ fnIn.op = "update" /\ fnOut # <<>>) =>
        /\ fnOut = <<None>>
        /\ KeepsWellFormed(store[fnIn.token].bids, fnIn.bids)
        /\ KeepsWellFormed(store[fnIn.token].asks, fnIn.asks)

\* a malformed level in front of a well-formed one: the second is stored
C23_Witness ==
    /\ fnIn # <<>> /\ fnIn.op = "update" /\ fnOut # <<>>
    /\ Len(fnIn.asks) = 2
    /\ ~WellFormed(fnIn.asks[1]) /\ WellFormed(fnIn.asks[2])
    /\ store[fnIn.token].asks = <<ValueOf(fnIn.asks[2])>>

\* the threads of the kind that have not exited, after the step
AliveAfter(kind) ==
    {i \in DOMAIN threads' : threads'[i].kind = kind /\ threads'[i].pc # "exited"}

\* C24: a set_token_ids call with another token set is a clean stop then
\* start: the token set is not replaced while a worker is still running,
\* and when the call returns every worker started before it has exited and
\* exactly one poll worker and at most one stream supervisor are running;
\* a call with the unchanged set does nothing.
C24_RebindIsCleanRestart ==
    [][/\ token_ids' # token_ids => \A i \in DOMAIN threads : ~Alive(i)
       /\ (fd.pc = "start" /\ fd'.pc = "returned") =>
             /\ \A i \in 1..fd.nBefore : threads'[i].pc = "exited"
             /\ Cardinality(AliveAfter("poll")) = 1
             /\ Cardinality(AliveAfter("ws")) <= 1
       /\ (fd.pc = "idle" /\ fd'.pc = "returned") =>
             /\ fd'.arg = token_ids
             /\ UNCHANGED <<stopEv, token_ids, threads, refs>>]_vars

\* the stream supervisors started so far
Supervisors == {i \in DOMAIN threads : threads[i].kind = "ws"}

\* kind and pc of thread i, "none" before it is started
KindOf(i) == IF i \in DOMAIN threads THEN threads[i].kind ELSE "none"
PcOf(i) == IF i \in DOMAIN threads THEN threads[i].pc ELSE "none"

\* C25: while the feed is not stopped, each time the streaming connection
\* ends or fails to open the supervisor waits the fixed back-off delay and
\* then opens a new connection, subscribing with the token set current when
\* it opens, whatever the number of failures before; it exits only on a set
\* stop flag, and once it has observed stop it makes no new connection
\* attempt.
C25_SupervisorReconnects ==
    /\ [][\A i \in Supervisors :
            /\ (threads[i].pc # "exited" /\ threads'[i].pc = "exited") => stopEv
            /\ (threads[i].pc = "backoff" /\ threads'[i].pc = "top") =>
                   threads[i].k = BackoffChecks /\ ~stopEv
            /\ (threads[i].pc = "backoff" /\ threads'[i].pc = "broke") => stopEv
            /\ (threads[i].sub = None /\ threads'[i].sub # None) =>
                   threads'[i].sub = token_ids /\ threads[i].pc = "running"
            /\ threads[i].pc = "broke" => threads'[i].pc \in {"broke", "exited"}]_vars
    /\ \A i \in 1..MaxThreads :
          (KindOf(i) = "ws" /\ PcOf(i) = "backoff")
              ~> (PcOf(i) \in {"running", "broke", "exited"} \/ fd.pc = "exit")

\* C29: when an interrupt ends the driver loop the feed is stopped cleanly:
\* stop() has set the stop flag and joined both workers, so at the exit of
\* the process the flag is set and no worker is left running.
C29_InterruptStopsFeed ==
    fd.pc = "exit" => stopEv /\ \A i \in DOMAIN threads : ~Alive(i)

\* the file holds a parseable document whose "accounts" object has an entry
\* for sym that from_dict can read
Stores(file, sym) ==
    /\ file.exists /\ file.json # <<>>
    /\ "accounts" \in DOMAIN file.json[1]
    /\ sym \in DOMAIN file.json[1]["accounts"]
    /\ ~FromDictRaises(file.json[1]["accounts"][sym])

\* the file is absent or unparseable, or its "accounts" object has no entry
\* for sym
Lacks(file, sym) ==
    \/ ~file.exists
    \/ file.json = <<>>
    \/ IF "accounts" \in DOMAIN file.json[1]
       THEN sym \notin DOMAIN file.json[1]["accounts"]
       ELSE TRUE

\* C27: load_state returns, for every configured symbol, the account the
\* state file stores for it when the file exists and contains the symbol,
\* and a fresh account with the starting balance and no positions when the
\* file is absent, unreadable or has no entry for the symbol.
C27_LoadPerSymbol ==
    (fnIn # <<>> /\ fnIn.op = "load" /\ fnOut # <<>>) =>
        /\ DOMAIN fnOut[1].accounts = PersistSymbols
        /\ \A sym \in PersistSymbols :
            /\ Stores(fnIn.file, sym) =>
                   fnOut[1].accounts[sym] =
                       from_dict(fnIn.file.json[1]["accounts"][sym], sym, R(100, 1))
            /\ Lacks(fnIn.file, sym) =>
                   fnOut[1].accounts[sym] = NewAccount(sym, R(100, 1))

\* C28: while and after save_state runs, the state file is the previous
\* complete snapshot or the new complete one, and a load_state after the
\* save returns the accounts of one of the two.
C28_SaveIsAtomic ==
    (fnIn # <<>> /\ fnIn.op = "save") =>
        /\ disk \in {fnIn.file, File(save_state(fnIn.accounts, fnIn.meta))}
        /\ fnOut # <<>> =>
               fnOut[1].accounts \in
                   {fnIn.accounts,
                    load_state(fnIn.file, SymbolOrder, R(100, 1)).accounts}

\* C30: the MarketResult settle_market returns holds the shares and cost both
\* tokens had before the settlement, pnl = redemption - (UP cost + DOWN cost)
\* with redemption = the winning side's shares before the settlement, and
\* balance_after = the account's cash after the credit.
C30_ResultRecordsSettlement ==
    [][(result' # result /\ result' # <<>>) =>
          LET res == result'[1]
              redemption == IF res.winner = "UP" THEN pos["UP"].shares
                            ELSE pos["DOWN"].shares
          IN  /\ res.winner \in Sides
              /\ res.up_shares = pos["UP"].shares
              /\ res.down_shares = pos["DOWN"].shares
              /\ res.up_cost = pos["UP"].cost_usd
              /\ res.down_cost = pos["DOWN"].cost_usd
              /\ res.pnl = RSub(redemption, RAdd(pos["UP"].cost_usd, pos["DOWN"].cost_usd))
              /\ res.balance_after = cash'
              /\ cash' = RAdd(cash, redemption)]_vars

\* a settled market on which both tokens were held, the winner's shares were
\* credited and the result shows a loss
C30_Witness ==
    /\ result # <<>>
    /\ RLt(Zero, result[1].up_shares) /\ RLt(Zero, result[1].down_shares)
    /\ RLt(result[1].pnl, Zero)
    /\ result[1].balance_after = cash
    /\ RLt(cash0, RAdd(cash, RAdd(result[1].up_cost, result[1].down_cost)))

\* primary = None, both next DCA thresholds at the entry threshold, both
\* DCA counts 0
FullyReset(e) ==
    /\ e.primary = None
    /\ \A t \in Sides : e.thr[t] = R(entry_ask_cents, 100) /\ e.done[t] = 0

ResetState ==
    [primary |-> None, thr |-> [t \in Sides |-> R(entry_ask_cents, 100)],
     done |-> [t \in Sides |-> 0]]

\* the scratch states a step of the engine can leave when started from e
StepsFrom(e) ==
    {EngineStep(e, acct, st).e : acct \in DriverAccounts, st \in DriverBooks}

\* C26: an iteration of the driver loop that binds a market takes its step
\* from the fully reset scratch state, and the loop binds exactly when the
\* bound slug changes; an iteration that binds none (the refresh returned
\* the bound slug, failed, or did not run) never brings a scratch state the
\* engine has written back to the reset one.
C26_ResetExactlyOnBind ==
    [][/\ (active' # None /\ active' # active) => nBind' = nBind + 1
       /\ (active # None /\ active' = active) => nBind' = nBind
       /\ nBind' # nBind => Scratch' \in StepsFrom(ResetState)
       /\ (nBind' = nBind /\ ~FullyReset(Scratch)) => ~FullyReset(Scratch')]_vars

\* a market is bound for the second time in the run, and the step taken on
\* it has picked a primary side and made that side's first buy, as from a
\* reset engine
C26_Witness ==
    /\ nBind = 2
    /\ active # None
    /\ primary # None
    /\ \A t \in Sides :
        IF t = primary THEN done[t] = 1 /\ RLt(thr[t], R(entry_ask_cents, 100))
        ELSE done[t] = 0 /\ thr[t] = R(entry_ask_cents, 100)

\* C31: once a stop() that no start() follows has returned, every feed
\* worker sees the stop flag and exits: eventually no worker is running
\* (or the process has ended).
C31_StopEndsWorkers ==
    (fd.pc = "stopped") ~> ((\A i \in DOMAIN threads : ~Alive(i)) \/ fd.pc = "exit")

\* the response is a list and its first i items are dicts
CleanPrefix(resp, i) ==
    /\ resp.kind = "reply" /\ resp.status = 200 /\ resp.list
    /\ i <= Len(resp.arr)
    /\ \A j \in 1..i : resp.arr[j].dict

\* the items of the response that reach the store for token t
Delivered(resp, t) ==
    {i \in 1..MaxItems + 1 :
        IF CleanPrefix(resp, i) THEN resp.arr[i].tid = t ELSE FALSE}

Last(S) == CHOOSE i \in S : \A j \in S : j <= i

\* C32: whatever a poll cycle meets (request error, non-200 status, non-list
\* body, an item that is no dict), the worker goes on to its sleep and to
\* the next cycle, and each book holds the last item delivered for it
\* before the failure, or its previous content when there is none; an
\* undecodable stream message leaves the store as it was.
C32_PollCycleSwallowsErrors ==
    /\ (fnIn # <<>> /\ fnIn.op = "poll" /\ fnOut # <<>>) =>
           /\ fnOut[1].next = "sleep"
           /\ \A t \in Sides :
                 fnOut[1].store[t] =
                     IF Delivered(fnIn.resp, t) = {} THEN fnIn.prev[t]
                     ELSE BookOf(fnIn.resp.arr[Last(Delivered(fnIn.resp, t))])
    /\ (fnIn # <<>> /\ fnIn.op = "message" /\ fnOut # <<>>) =>
           (~fnIn.msg.decodable => fnOut[1].store = fnIn.prev)

\* a cycle whose response has an item that is no dict in front of a good
\* item for UP: the worker goes on and UP keeps the book it had
C32_Witness ==
    /\ fnIn # <<>> /\ fnIn.op = "poll" /\ fnOut # <<>>
    /\ fnIn.resp.kind = "reply" /\ fnIn.resp.list /\ Len(fnIn.resp.arr) = 2
    /\ ~fnIn.resp.arr[1].dict
    /\ fnIn.resp.arr[2] = ItemBook("UP", SnapDeep)
    /\ fnIn.prev["UP"] = BookOf(SnapThin)
    /\ fnOut[1].store["UP"] = BookOf(SnapThin)
    /\ fnOut[1].next = "sleep"

\* C33: in no iteration of the driver loop does engine.step fill an order
\* on a market whose end_time + grace has passed: the iteration that
\* settles a market records no fill.
C33_NoFillOnExpiredMarket ==
    [][(\E m \in Markets : nRes'[m] # nRes[m]) => trace'.fills = <<>>]_vars

\* C34: when settle_market runs again for a market it has settled and no
\* buy was made in between (the cash is still the balance the first run
\* left), the run credits nothing: cash and positions stay exactly as the
\* first run left them, with both positions at zero.
C34_SettlementIdempotent ==
    [][(pc = "settle" /\ pc' = "idle" /\ result # <<>>
            /\ (IF result # <<>> THEN cash = result[1].balance_after ELSE FALSE)) =>
          /\ cash' = cash
          /\ pos' = pos
          /\ \A t \in Sides : pos'[t] = NoPosition]_vars

\* the settled market was settled a second time: the first run had credited
\* a position bought on it, the second found no shares and left the cash
C34_Witness ==
    /\ nBind = 1 /\ pc = "idle" /\ result # <<>>
    /\ result[1].up_shares = Zero /\ result[1].down_shares = Zero
    /\ result[1].balance_after = cash
    /\ cash # cash0
    /\ trace = NoTrace

\* the accounts after differ from those before at most in the cash of the
\* market's symbol and in its positions under the market's two tokens
OnlyMarketChanged(before, after, mkt) ==
    /\ DOMAIN after = DOMAIN before
    /\ \A sym \in DOMAIN before :
          IF sym # mkt.symbol THEN after[sym] = before[sym]
          ELSE /\ after[sym].symbol = before[sym].symbol
               /\ \A k \in DOMAIN before[sym].positions \ {mkt.up_token, mkt.down_token} :
                     /\ k \in DOMAIN after[sym].positions
                     /\ after[sym].positions[k] = before[sym].positions[k]
               /\ DOMAIN after[sym].positions \subseteq
                      DOMAIN before[sym].positions \cup {mkt.up_token, mkt.down_token}

\* C35: a step and a settlement for a market of symbol S change only the
\* account of S, and in it only cash and the positions under the market's
\* two tokens.
C35_StepAndSettleFrame ==
    (fnIn # <<>> /\ fnIn.op = "frame" /\ fnOut # <<>>) =>
        /\ OnlyMarketChanged(fnIn.accounts, fnOut[1].stepped, fnIn.mkt)
        /\ OnlyMarketChanged(fnOut[1].stepped, fnOut[1].settled, fnIn.mkt)

\* the BTC account held an older token next to the market's UP token; the
\* step bought on the market, the settlement redeemed it, and the older
\* token's position and the ETH account are as they were
C35_Witness ==
    /\ fnIn # <<>> /\ fnIn.op = "frame" /\ fnOut # <<>>
    /\ DOMAIN fnIn.accounts["BTC"].positions = {"t1", "old"}
    /\ RLt(fnOut[1].stepped["BTC"].cash, fnIn.accounts["BTC"].cash)
    /\ RLt(fnOut[1].stepped["BTC"].cash, fnOut[1].settled["BTC"].cash)
    /\ fnOut[1].settled["BTC"].positions["t1"] = NoPosition
    /\ fnOut[1].settled["BTC"].positions["old"] = HeldPosition
    /\ fnOut[1].settled["ETH"] = fnIn.accounts["ETH"]

\* the Fills of the tick just taken that an entry/DCA buy on side t recorded
DcaFills(tr, t) ==
    {i \in DOMAIN tr.fills :
        tr.fills[i].token_id = t /\ tr.fills[i].note = t \o "_entry_or_dca"}

\* C36: in every tick each side's DCA counter advances by the number of
\* entry/DCA Fills the tick recorded on that side, and its threshold moves
\* only with such a Fill, so that a rejected buy uses up no level; and no
\* side's counter goes past dca_levels + 1.
C36_DcaCounterCountsFills ==
    [][Tick =>
          \A t \in Sides :
              /\ done'[t] = done[t] + Cardinality(DcaFills(trace', t))
              /\ DcaFills(trace', t) = {} => thr'[t] = thr[t]
              /\ done'[t] <= dca_levels + 1]_vars

\* the hedge buy calls of the tick just taken
HedgeCalls(tr) ==
    {i \in DOMAIN tr.calls : tr.calls[i].note = "hedge_chunk_sumcap_ok"}

\* C37: every hedge buy of a tick is on the side opposite to the primary
\* one, is started with primary cost > 0, with the hedge side's best ask at
\* or below the entry threshold and with hedge cost strictly below primary
\* cost; and in threshold mode hedge cost never exceeds primary cost by
\* buy_chunk_usd or more.
C37_HedgeOnlyBelowPrimaryCost ==
    /\ [][Tick =>
            \A i \in HedgeCalls(trace') :
                LET c == trace'.calls[i]
                IN  /\ primary' \in Sides
                    /\ c.token = Other(primary')
                    /\ RLt(Zero, c.pos[primary'].cost_usd)
                    /\ RLe(best_ask(store[c.token]), R(entry_ask_cents, 100))
                    /\ RLt(c.pos[c.token].cost_usd, c.pos[primary'].cost_usd)
                    /\ c.pos2[primary'] = c.pos[primary']]_vars
    /\ [](primary \in Sides =>
             RLt(RSub(pos[Other(primary)].cost_usd, pos[primary].cost_usd),
                 buy_chunk_usd))

\* a tick filled a hedge chunk that took the hedge side's cost past the
\* primary side's, by less than a chunk
C37_Witness ==
    /\ primary \in Sides
    /\ \E i \in HedgeCalls(trace) : trace.calls[i].nfills2 > trace.calls[i].nfills
    /\ RLt(pos[primary].cost_usd, pos[Other(primary)].cost_usd)

\* the shares of the first k Fills that are on token t
RECURSIVE SharesOn(_, _, _)
SharesOn(fills, t, k) ==
    IF k = 0 THEN Zero
    ELSE IF fills[k].token_id = t
    THEN RAdd(SharesOn(fills, t, k - 1), fills[k].shares)
    ELSE SharesOn(fills, t, k - 1)

\* C38: the shares a tick buys on a token, over all its chunks, are at most
\* the total ask size of the book of that token the tick read.
C38_FillsWithinVisibleDepth ==
    [][Tick =>
          \A t \in Sides :
              RLe(SharesOn(trace'.fills, t, Len(trace'.fills)),
                  SumSize(store[t].asks, Len(store[t].asks)))]_vars

\* the usd of the first k Fills
RECURSIVE UsdOf(_, _)
UsdOf(fills, k) == IF k = 0 THEN Zero ELSE RAdd(UsdOf(fills, k - 1), fills[k].usd)

\* C39: every debit of the account's cash has its Fill: whenever an
\* iteration of the loop lowers the cash, the Fills it recorded add up to
\* the amount taken, also when the audit writer fails; and a position
\* bought on the primary side by an entry/DCA buy has advanced that side's
\* DCA counter, so that the level is not bought again.
C39_EveryDebitHasItsFill ==
    [][RLt(cash', cash) =>
          /\ UsdOf(trace'.fills, Len(trace'.fills)) = RSub(cash, cash')
          /\ \A t \in Sides :
                (\E i \in DcaCalls(trace') :
                     trace'.calls[i].token = t /\ trace'.calls[i].cash2 # trace'.calls[i].cash)
                    => done'[t] = done[t] + 1]_vars
====
